---- MODULE Spec2Model ----
(***************************************************************************)
(* Model of the fml markup front end of aalhitennf/fiber:                  *)
(*   - Lexer::lex                    (fml/src/lexer.rs)                    *)
(*   - Parser::parse / parse_element (fml/src/parser.rs)                   *)
(*   - Element::new, ElementId       (fml/src/parser/element.rs)           *)
(*   - AttributeValue, VariableRef   (fml/src/parser/attr.rs)              *)
(*   - parse                         (fml/src/lib.rs)                      *)
(*                                                                         *)
(* A source text is a sequence of one-character strings.  All characters   *)
(* of the model are ASCII, so a byte offset is a character offset, and     *)
(* offsets are 0-based as in the code (the character at offset i of s is   *)
(* s[i + 1]).  Each process p runs one call of fml::parse on input[p];     *)
(* the processes share the static ELEMENT_ID.                              *)
(***************************************************************************)
EXTENDS Integers, Sequences, FiniteSets, TLC

\* ------------------------------------------------------------------------
\* Bounds of the model
\* ------------------------------------------------------------------------

\* Largest number of nodes (elements and texts) of a generated document.
MaxNodes == 4

\* Largest length of the arbitrary (mostly malformed) character strings.
MaxRandLen == 3

\* Largest number of nodes of a document parsed by two calls at a time.
MaxRaceNodes == 2

\* ------------------------------------------------------------------------
\* Characters
\* ------------------------------------------------------------------------

\* char::is_alphabetic, on the letters the model uses
Alphabetic ==
    {"a", "b", "c", "d", "e", "f", "i", "l", "n", "o", "p", "r", "s", "t",
     "u", "v", "x", "y", "C", "g", "h", "k", "w"}

\* char::is_numeric
Numeric == {"0", "1", "2", "3", "4", "5", "6", "7", "8", "9"}

\* char::is_whitespace
Whitespace == {" ", "\n", "\t"}

\* every character of the model
Chars ==
    Alphabetic \cup Numeric \cup Whitespace
        \cup {"<", ">", "/", "=", "\"", "{", "}", ":", ".", "-", "!", "\\"}
        \cup {";", ",", "*", "(", ")", "#", "%"}

\* the result of peek_char / next_char at the end of the input (None)
NoChar == ""

\* ------------------------------------------------------------------------
\* Lexer helpers (fml/src/lexer.rs)
\* ------------------------------------------------------------------------

\* Lexer::peek_char: the character at offset pos, or None
PeekChar(s, pos) == IF pos < Len(s) THEN s[pos + 1] ELSE NoChar

\* The offset at which a `while let Some(c) = peek_char() { if c in class
\* { next_char() } else { break } }` loop started at offset pos stops.
RunWhile(s, pos, class) ==
    CHOOSE e \in pos..Len(s) :
        /\ \A k \in pos..(e - 1) : s[k + 1] \in class
        /\ (e < Len(s) => s[e + 1] \notin class)

\* Lexer::skip_whitespace
SkipWhitespace(s, pos) == RunWhile(s, pos, Whitespace)

\* the text of s from offset from (inclusive) to offset to (exclusive)
Slice(s, from, to) == SubSeq(s, from + 1, to)

\* struct Token
Token(kind, text, start, end) ==
    [kind |-> kind, text |-> text, start |-> start, end |-> end]

\* The arms of the match of Lexer::lex.  Each takes the input, the offset
\* pos of the character ch that next_char just returned and the inside_tag
\* flag, and gives the tokens pushed (none or one), the position after the
\* arm (before the skip_whitespace that ends the iteration) and the new
\* inside_tag.
Arm(emit, position, inside) ==
    [emit |-> emit, position |-> position, inside_tag |-> inside]

\* '<'
ArmTagOpen(s, pos, inside) ==
    IF PeekChar(s, pos + 1) = "/"
    THEN Arm(<<Token("TagClose", <<>>, pos, pos + 2)>>, pos + 2, TRUE)
    ELSE Arm(<<Token("TagStart", <<>>, pos, pos + 1)>>, pos + 1, TRUE)

\* '>' with a token span one character too long
ArmTagEndWide(s, pos, inside) ==
    Arm(<<Token("TagEnd", <<>>, pos, pos + 2)>>, pos + 1, FALSE)

\* '>'
ArmTagEnd(s, pos, inside) ==
    Arm(<<Token("TagEnd", <<>>, pos, pos + 1)>>, pos + 1, FALSE)

\* '/'
ArmSlash(s, pos, inside) ==
    IF PeekChar(s, pos + 1) = ">"
    THEN Arm(<<Token("TagSelfClose", <<>>, pos, pos + 2)>>, pos + 2, inside)
    ELSE Arm(<<>>, pos + 1, inside)

\* '='
ArmEqual(s, pos, inside) ==
    Arm(<<Token("Equal", <<>>, pos, pos + 1)>>, pos + 1, inside)

\* '"': the value runs to the next '"' at offset q, or to the end q of the
\* input
QuotedValue(s, value_start_pos, q, inside) ==
    Arm(<<Token("AttributeValue", Slice(s, value_start_pos, q), value_start_pos - 1,
                IF q < Len(s) THEN q + 1 ELSE q)>>,
        IF q < Len(s) THEN q + 1 ELSE q, inside)

ArmQuote(s, pos, inside) ==
    QuotedValue(s, pos + 1, RunWhile(s, pos + 1, Chars \ {"\""}), inside)

\* an alphabetic character inside a tag: a tag name or an attribute name,
\* which ends at offset e
NameToken(s, pos, e, inside) ==
    Arm(<<Token(IF PeekChar(s, e) = "=" THEN "AttributeName" ELSE "TagName",
                Slice(s, pos, e), pos, e)>>, e, inside)

ArmName(s, pos, inside) ==
    NameToken(s, pos, RunWhile(s, pos + 1, Alphabetic \cup Numeric \cup {"-", ":"}),
              inside)

\* a token of the text from offset pos to offset e
RunToken(kind, s, pos, e, inside) ==
    Arm(<<Token(kind, Slice(s, pos, e), pos, e)>>, e, inside)

\* an alphabetic character outside a tag: text up to the next '<'
ArmAlphaText(s, pos, inside) ==
    RunToken("Text", s, pos, RunWhile(s, pos + 1, Chars \ {"<"}), inside)

\* a digit, '.' or '-': a run of digits and '.'
ArmNumber(s, pos, inside) ==
    RunToken("AttributeValue", s, pos, RunWhile(s, pos + 1, Numeric \cup {"."}), inside)

\* any other character that is not whitespace: text up to the next '<'
ArmOtherText(s, pos, inside) ==
    RunToken("Text", s, pos, RunWhile(s, pos + 1, Chars \ {"<"}), inside)

\* whitespace: nothing
ArmWhitespace(s, pos, inside) == Arm(<<>>, pos + 1, inside)

\* ------------------------------------------------------------------------
\* Text helpers (the std string functions the parser modules call)
\* ------------------------------------------------------------------------

\* str::contains(char)
Contains(s, c) == \E i \in 1..Len(s) : s[i] = c

\* the offset of the first occurrence of c in s at or after offset from,
\* Len(s) when there is none
FindFrom(s, from, c) == RunWhile(s, from, Chars \ {c})

\* str::trim_end_matches(set)
TrimEndMatches(s, set) ==
    SubSeq(s, 1, CHOOSE e \in 0..Len(s) :
                     /\ \A k \in (e + 1)..Len(s) : s[k] \in set
                     /\ (e > 0 => s[e] \notin set))

\* str::trim_start_matches(set)
TrimStartMatches(s, set) == Slice(s, RunWhile(s, 0, set), Len(s))

\* str::trim_matches(set)
TrimMatches(s, set) == TrimEndMatches(TrimStartMatches(s, set), set)

\* the value of one decimal digit
DigitVal(c) ==
    CASE c = "0" -> 0 [] c = "1" -> 1 [] c = "2" -> 2 [] c = "3" -> 3
      [] c = "4" -> 4 [] c = "5" -> 5 [] c = "6" -> 6 [] c = "7" -> 7
      [] c = "8" -> 8 [] c = "9" -> 9

\* the number a run of decimal digits denotes
RECURSIVE DigitsValue(_)
DigitsValue(ds) ==
    IF ds = <<>> THEN 0
    ELSE DigitsValue(SubSeq(ds, 1, Len(ds) - 1)) * 10 + DigitVal(ds[Len(ds)])

IsDigits(s) == \A i \in 1..Len(s) : s[i] \in Numeric

\* s without one leading sign character
Unsigned(s) == IF s # <<>> /\ s[1] \in {"+", "-"} THEN Tail(s) ELSE s

IsNegative(s) == s # <<>> /\ s[1] = "-"

\* the value of the digits ds under the sign of s
Signed(s, ds) == IF IsNegative(s) THEN 0 - DigitsValue(ds) ELSE DigitsValue(ds)

\* <i64 as FromStr>::from_str: an optional sign and at least one digit.
\* (The values of the model stay far below the 64-bit range.)
I64Digits(s, ds) ==
    IF ds # <<>> /\ IsDigits(ds)
    THEN [ok |-> TRUE, value |-> Signed(s, ds)]
    ELSE [ok |-> FALSE, value |-> 0]

ParseI64(s) == I64Digits(s, Unsigned(s))

\* mant * 10^(-scale) with the factors of ten moved out of mant
RECURSIVE NormalDecimal(_, _)
NormalDecimal(mant, scale) ==
    IF mant = 0 THEN [mant |-> 0, scale |-> 0]
    ELSE IF mant % 10 = 0 THEN NormalDecimal(mant \div 10, scale - 1)
    ELSE [mant |-> mant, scale |-> scale]

\* the result of a float parse
F64(ok, special, neg, d) ==
    [ok |-> ok, special |-> special, neg |-> neg, mant |-> d.mant, scale |-> d.scale]

NotF64 == F64(FALSE, "", FALSE, [mant |-> 0, scale |-> 0])

\* the digits int '.' frac with the exponent text expo ("" when has_exp is
\* FALSE): a number when there is a digit and the exponent is [sign]digits
F64Value(neg, int, frac, expo, has_exp) ==
    IF /\ IsDigits(int) /\ IsDigits(frac) /\ Len(int) + Len(frac) > 0
       /\ has_exp => (Unsigned(expo) # <<>> /\ IsDigits(Unsigned(expo)))
    THEN F64(TRUE, "", neg,
             NormalDecimal(DigitsValue(int \o frac),
                           Len(frac) - (IF has_exp THEN Signed(expo, Unsigned(expo)) ELSE 0)))
    ELSE NotF64

\* num, with its '.' at offset dot (Len(num) when it has none)
F64Split(neg, num, dot, expo, has_exp) ==
    F64Value(neg, Slice(num, 0, dot),
             Slice(num, IF dot < Len(num) THEN dot + 1 ELSE dot, Len(num)),
             expo, has_exp)

\* body, with its 'e' at offset epos (Len(body) when it has none)
F64Number(neg, body, epos) ==
    F64Split(neg, Slice(body, 0, epos), FindFrom(Slice(body, 0, epos), 0, "."),
             Slice(body, IF epos < Len(body) THEN epos + 1 ELSE epos, Len(body)),
             epos < Len(body))

F64Body(neg, body) ==
    IF body \in {<<"i", "n", "f">>, <<"n", "a", "n">>,
                 <<"i", "n", "f", "i", "n", "i", "t", "y">>}
    THEN F64(TRUE, body[1], neg, [mant |-> 0, scale |-> 0])
    ELSE F64Number(neg, body, FindFrom(body, 0, "e"))

\* <f64 as FromStr>::from_str: [sign] (inf | infinity | nan | number), number
\* being digits with at most one '.' and at least one digit, then an
\* optional exponent e[sign]digits.  The value is kept as an exact decimal
\* (neg, mant, scale) = (-1)^neg * mant * 10^(-scale).
ParseF64(s) == F64Body(IsNegative(s), Unsigned(s))

\* ------------------------------------------------------------------------
\* fml/src/parser/attr.rs
\* ------------------------------------------------------------------------

\* impl From<&str> for VariableType
VariableTypeFrom(t) ==
    CASE t = <<"s", "t", "r">> -> "String"
      [] t = <<"i", "n", "t">> -> "Integer"
      [] t = <<"d", "e", "c">> -> "Float"
      [] OTHER -> "Unknown"

\* impl From<&str> for VariableName: split at the first ':', at offset c
VariableNameAt(value, c) ==
    IF c = Len(value)
    THEN [name |-> value, kind |-> "Unknown"]
    ELSE [name |-> Slice(value, c + 1, Len(value)),
          kind |-> VariableTypeFrom(Slice(value, 0, c))]

VariableNameFrom(value) == VariableNameAt(value, FindFrom(value, 0, ":"))

\* The variants of enum AttributeValue (line and col are not modelled).
AVString(v)   == [type |-> "String", text |-> v]
AVInteger(n)  == [type |-> "Integer", int |-> n]
AVFloat(f)    == [type |-> "Float", special |-> f.special, neg |-> f.neg,
                  mant |-> f.mant, scale |-> f.scale]
AVVariable(n) == [type |-> "Variable", name |-> n.name, kind |-> n.kind]

\* AttributeValue::new that tries the float parse before the integer parse
AttributeValueFloatFirst(input, int, float) ==
    IF float.ok THEN [ok |-> TRUE, value |-> AVFloat(float)]
    ELSE IF int.ok THEN [ok |-> TRUE, value |-> AVInteger(int.value)]
    ELSE IF Contains(input, "\n") THEN [ok |-> FALSE, value |-> AVString(<<>>)]
    ELSE [ok |-> TRUE, value |-> AVString(TrimMatches(input, {"\"", " "}))]

\* AttributeValue::new after the test for ':', given what input.parse::<i64>()
\* and input.parse::<f64>() return
AttributeValueParsed(input, int, float) ==
    IF int.ok THEN [ok |-> TRUE, value |-> AVInteger(int.value)]
    ELSE IF float.ok THEN [ok |-> TRUE, value |-> AVFloat(float)]
    ELSE IF Contains(input, "\n") THEN [ok |-> FALSE, value |-> AVString(<<>>)]
    ELSE [ok |-> TRUE, value |-> AVString(TrimMatches(input, {"\"", " "}))]

\* AttributeValue::new that never takes the branch of the ':'
AttributeValueNewNoVariable(input) ==
    AttributeValueParsed(input, ParseI64(input), ParseF64(input))

\* AttributeValue::new: Result<AttributeValue, String>
AttributeValueNew(input) ==
    IF Contains(input, ":")
    THEN [ok |-> TRUE,
          value |-> AVVariable(VariableNameFrom(TrimEndMatches(input, {"{", "}"})))]
    ELSE AttributeValueParsed(input, ParseI64(input), ParseF64(input))

\* AttributeValue::from_token: the value, or a panic (ok = FALSE) when
\* AttributeValue::new(..).unwrap() meets an Err or the token is of
\* another kind.
AttributeValueFromToken(token) ==
    CASE token.kind = "Variable" ->
           [ok |-> TRUE, value |-> AVVariable(VariableNameFrom(token.text))]
      [] token.kind = "AttributeValue" -> AttributeValueNew(token.text)
      [] OTHER -> [ok |-> FALSE, value |-> AVString(<<>>)]

\* struct VariableRef
VariableRef(full_match, start, end, kind) ==
    [full_match |-> full_match, start |-> start, end |-> end, kind |-> kind]

\* VariableRef::name: &self.full_match[self.start + 1..self.end - 1].
\* A range that is not inside full_match makes the slice panic (ok = FALSE).
VariableRefName(ref) ==
    IF ref.start + 1 <= ref.end - 1 /\ ref.end - 1 <= Len(ref.full_match)
    THEN [ok |-> TRUE, name |-> Slice(ref.full_match, ref.start + 1, ref.end - 1)]
    ELSE [ok |-> FALSE, name |-> <<>>]

\* ------------------------------------------------------------------------
\* fml/src/parser/element.rs
\* ------------------------------------------------------------------------

\* ElementId::next that loads the counter and does not add to it
ElementIdNextLoad(counter) == [id |-> counter, counter |-> counter]

\* ElementId::next: ELEMENT_ID.fetch_add(1), as the pair of the value
\* returned and the value stored.
ElementIdNext(counter) == [id |-> counter, counter |-> counter + 1]

\* ElementId::reset that leaves the counter as it is
ElementIdResetKeep(counter) == counter

\* ElementId::reset: ELEMENT_ID.store(0), the value stored
ElementIdReset(counter) == 0

\* enum ElementKind; Custom carries the tag name
Kind(tag) == [tag |-> tag, name |-> <<>>]

\* the match on name.as_bytes() of Element::new
ElementKindOf(name) ==
    CASE name = <<"r", "o", "o", "t">> -> Kind("Root")
      [] name = <<"b", "o", "x">> -> Kind("Box")
      [] name = <<"v", "s", "t", "a", "c", "k">> -> Kind("VStack")
      [] name = <<"h", "s", "t", "a", "c", "k">> -> Kind("HStack")
      [] name = <<"c", "l", "i", "p">> -> Kind("Clip")
      [] name = <<"l", "i", "s", "t">> -> Kind("List")
      [] name = <<"l", "a", "b", "e", "l">> -> Kind("Label")
      [] name = <<"b", "u", "t", "t", "o", "n">> -> Kind("Button")
      [] name = <<"i", "n", "p", "u", "t">> -> Kind("Input")
      [] name = <<"i", "m", "a", "g", "e">> -> Kind("Image")
      [] name = <<>> -> Kind("Empty")
      [] OTHER -> [tag |-> "Custom", name |-> name]

\* Element::new that gives every element the first id, never the next one
ElementNewFirstId(name, attributes, children, counter) ==
    [type |-> "Element", id |-> ElementIdReset(counter), kind |-> ElementKindOf(name),
     attributes |-> attributes, children |-> children,
     content |-> <<>>, variable_refs |-> <<>>]

\* Element::new, given the value of ELEMENT_ID it reads
ElementNew(name, attributes, children, counter) ==
    [type |-> "Element", id |-> ElementIdNext(counter).id, kind |-> ElementKindOf(name),
     attributes |-> attributes, children |-> children,
     content |-> <<>>, variable_refs |-> <<>>]

\* struct Attribute
Attribute(name, value) == [name |-> name, value |-> value]

\* VariableType of the text inner between the braces, whose first ':' is at
\* offset colon (Len(inner) when it has none)
InnerKind(inner, colon) ==
    IF colon = Len(inner) THEN "Unknown" ELSE VariableTypeFrom(Slice(inner, 0, colon))

\* the VariableRef of the match of content from offset open to offset close
\* (its closing brace)
MatchRef(content, open, close) ==
    VariableRef(Slice(content, open, close + 1), open, close + 1,
                InnerKind(Slice(content, open + 1, close),
                          FindFrom(Slice(content, open + 1, close), 0, ":")))

\* The matches of the pattern \{[^}]*\} in content at or after offset from,
\* leftmost first and not overlapping, without those that hold an escaped
\* closing brace; each as a VariableRef with its span in content and the
\* kind read from the text before the first ':' inside the braces.
RECURSIVE VariableRefsFrom(_, _)
MatchesFrom(content, open, close) ==
    IF open = Len(content) \/ close = Len(content) THEN <<>>
    ELSE IF content[close] = "\\" THEN VariableRefsFrom(content, close + 1)
    ELSE <<MatchRef(content, open, close)>> \o VariableRefsFrom(content, close + 1)

VariableRefsFrom(content, from) ==
    MatchesFrom(content, FindFrom(content, from, "{"),
                FindFrom(content, FindFrom(content, from, "{"), "}"))

\* Node::Text(TextElement { content, variable_refs })
TextNode(content) ==
    [type |-> "Text", id |-> 0, kind |-> Kind("Text"), attributes |-> <<>>,
     children |-> <<>>, content |-> content,
     variable_refs |-> VariableRefsFrom(content, 0)]

\* ------------------------------------------------------------------------
\* The source texts the model parses
\* ------------------------------------------------------------------------

NBox   == <<"b", "o", "x">>
NLabel == <<"l", "a", "b", "e", "l">>
NInput == <<"i", "n", "p", "u", "t">>
NFoo   == <<"f", "o", "o">>

\* tag names: three names of the fixed set of Element::new and a custom one
Names == {NBox, NLabel, NInput, NFoo}

\* attribute names
AttrNames == {<<"v", "a", "l", "u", "e">>, <<"c", "l", "a", "s", "s">>}

\* the texts of quoted attribute values
AttrValues ==
    {<<"5">>, <<"-", "3">>, <<"1", ".", "5">>, <<"x">>, <<"x", " ", "y">>, <<>>, <<"i", "n", "t", ":", "n">>,
     <<"{", "i", "n", "t", ":", "n", "}">>, <<"x", "\n", "y">>, <<"5", "\n">>,
     <<"i", "n", "t", ":", "n", "\n">>}

\* unquoted numeric attribute values
BareValues == {<<"5">>, <<"-", "3">>, <<"1", ".", "5">>}

\* name="value"
QuotedAttr(a, v) == <<" ">> \o a \o <<"=", "\"">> \o v \o <<"\"">>

\* name=value
BareAttr(a, v) == <<" ">> \o a \o <<"=">> \o v

\* <name attrs>
OpenTag(n, attrs) == <<"<">> \o n \o attrs \o <<">">>

\* </name>
CloseTag(n) == <<"<", "/">> \o n \o <<">">>

\* <name attrs/>
SelfClosing(n, attrs) == <<"<">> \o n \o attrs \o <<"/", ">">>

\* text children of the generated documents
Texts == {<<"x">>, <<"5">>}

\* The documents with exactly k nodes: Trees(k) are the single nodes (a text,
\* or an element with its descendants), ElementTrees(k) those that are
\* elements, Forests(k) the sequences of nodes.
RECURSIVE ElementTrees(_), Trees(_), Forests(_)
ElementTrees(k) ==
    {OpenTag(NBox, <<>>) \o f \o CloseTag(NBox) : f \in Forests(k - 1)}
        \cup (IF k = 1 THEN {SelfClosing(NBox, <<>>)} ELSE {})

Trees(k) == ElementTrees(k) \cup (IF k = 1 THEN Texts ELSE {})

Forests(k) ==
    IF k = 0 THEN {<<>>}
    ELSE UNION {{t \o f : t \in Trees(j), f \in Forests(k - j)} : j \in 1..k}

\* well-formed single-root documents without attributes
TreeDocs == UNION {ElementTrees(k) : k \in 1..MaxNodes}

\* <NAME ATTR="V"/>
SelfClosingAttrDocs ==
    {SelfClosing(n, QuotedAttr(a, v)) : n \in Names, a \in AttrNames, v \in AttrValues}

\* <NAME ATTR="V">x</NAME>, <NAME ATTR=V/> and an element with two attributes
OtherAttrDocs ==
    {OpenTag(n, QuotedAttr(a, v)) \o <<"x">> \o CloseTag(n) :
        n \in {NInput, NFoo}, a \in AttrNames, v \in AttrValues}
    \cup {SelfClosing(NInput, BareAttr(a, v)) : a \in AttrNames, v \in BareValues}
    \cup {SelfClosing(NInput, QuotedAttr(a, <<"x">>) \o QuotedAttr(b, <<"5">>)) :
            a \in AttrNames, b \in AttrNames}

AttrDocs == SelfClosingAttrDocs \cup OtherAttrDocs

\* texts with inline variable references
VarTexts ==
    {<<"C", "o", "u", "n", "t", ":", " ", "{", "i", "n", "t", ":", "c", "o", "u", "n", "t", "e", "r", "}">>,
     <<"{", "i", "n", "t", ":", "c", "o", "u", "n", "t", "e", "r", "}">>,
     <<"{", "s", "t", "r", ":", "a", "}", " ", "{", "d", "e", "c", ":", "b", "}">>,
     <<"x", " ", "{", "n", "}">>,
     <<"{", "}">>,
     <<"a", " ", "{", "i", "n", "t", ":", "n">>,
     <<"a", " ", "\\", "}", " ", "b">>,
     <<"{", "a", "\\", "}">>,
     <<"p", "l", "a", "i", "n">>}

\* <label>TEXT</label> and <box>TEXT</box>
LabelDocs ==
    {OpenTag(n, <<>>) \o t \o CloseTag(n) : n \in {NLabel, NBox}, t \in VarTexts}

\* the pairs of different names an element is opened and closed with
NamePairs == {<<NBox, NLabel>>, <<NLabel, NBox>>}

\* an element closed under another name, and crossed tags
MismatchDocs ==
    {OpenTag(nm[1], <<>>) \o f \o CloseTag(nm[2]) :
        nm \in NamePairs, f \in Forests(0) \cup Forests(1)}
    \cup {OpenTag(nm[1], <<>>) \o OpenTag(nm[2], <<>>) \o <<"x">>
              \o CloseTag(nm[1]) \o CloseTag(nm[2]) : nm \in NamePairs}
    \cup {OpenTag(NBox, <<>>) \o OpenTag(nm[1], <<>>) \o CloseTag(nm[2])
              \o CloseTag(NBox) : nm \in NamePairs}

\* small well-formed roots
SmallRoots == ElementTrees(1) \cup ElementTrees(2)

\* no root, a text only, and several roots
RootCountDocs ==
    {<<>>} \cup Texts \cup {r1 \o r2 : r1 \in SmallRoots, r2 \in SmallRoots}
        \cup {r1 \o r2 \o r1 : r1 \in ElementTrees(1), r2 \in ElementTrees(1)}

\* documents cut short
PrefixDocs ==
    LET base == SmallRoots \cup ElementTrees(3)
                    \cup {SelfClosing(NInput, QuotedAttr(<<"v", "a", "l", "u", "e">>, <<"5">>))}
    IN  UNION {{SubSeq(d, 1, n) : n \in 1..(Len(d) - 1)} : d \in base}

\* a complete root followed by a malformed element
AfterRootDocs ==
    {r \o b : r \in ElementTrees(1), b \in PrefixDocs \cup MismatchDocs}

\* arbitrary short strings over the characters the lexer tells apart
RandChars == {"<", ">", "/", "=", "\"", "a", "5", " "}

RandDocs == UNION {[1..n -> RandChars] : n \in 0..MaxRandLen}

\* the documents that are well formed with exactly one top-level element
WellFormed ==
    TreeDocs
        \cup {d \in AttrDocs : ~\E i \in 1..Len(d) : d[i] = "\n"}
        \cup LabelDocs

\* the source texts of two calls that run at the same time: small trees,
\* an attribute, an attribute that makes the call panic, and a text
RaceSources ==
    UNION {ElementTrees(k) : k \in 1..MaxRaceNodes}
        \cup {SelfClosing(NInput, QuotedAttr(<<"v">>, <<"5">>)),
              SelfClosing(NInput, QuotedAttr(<<"v">>, <<"x", "\n", "y">>)),
              <<" ">> \o OpenTag(NBox, <<>>) \o <<"{", "x", "}">> \o CloseTag(NBox)}

\* the type prefixes of variable references: the three known ones, one in
\* another case and an unknown one
VariableTypes == {<<"s", "t", "r">>, <<"i", "n", "t">>, <<"d", "e", "c">>, <<"I", "n", "t">>, <<"f", "o", "o">>}

\* type:name with and without the braces of a variable reference
Reference(t, n) == t \o <<":">> \o n
BracedReference(t, n) == <<"{">> \o t \o <<":">> \o n \o <<"}">>

\* attribute values with a ':' or with braces
VariableValues ==
    {Reference(t, <<"n">>) : t \in VariableTypes}
        \cup {BracedReference(t, <<"n">>) : t \in VariableTypes}
        \cup {<<"1", ":", "2">>, <<"i", "n", "f", ":">>, <<"1", "e", "5", ":">>, <<":", "n">>, <<"n", ":">>, <<"a", ":", "b", ":", "c">>, <<"{", "n", "}">>}

\* <foo value="V"/> for the values with a ':' or with braces
VariableDocs ==
    {SelfClosing(NFoo, QuotedAttr(<<"v", "a", "l", "u", "e">>, v)) : v \in VariableValues}

\* every source text of the model
Sources ==
    WellFormed \cup AttrDocs \cup MismatchDocs \cup RootCountDocs \cup PrefixDocs
        \cup AfterRootDocs \cup RandDocs \cup VariableDocs

\* ------------------------------------------------------------------------
\* State
\* ------------------------------------------------------------------------

\* the calls of fml::parse that may run
Procs == {1, 2}

VARIABLES
    input,        \* input[p]: the source text of call p
    pc,           \* pc[p]: where call p is
    position,     \* Lexer.position
    inside_tag,   \* the local inside_tag of Lexer::lex
    tokens,       \* the Vec<Token> of Lexer::lex, then Parser.tokens
    cursor,       \* Parser.position
    stack,        \* the parse_element calls in progress, outermost first
    nodes,        \* the local nodes of Parser::parse
    perr,         \* the Err the last failed parse_element returned
    result,       \* what fml::parse returned
    var_names,    \* build_label: the variable names it looked up
    ELEMENT_ID,   \* static ELEMENT_ID: AtomicU64
    serialized,   \* TRUE when the caller runs the calls one after the other
    css,          \* the style source given to StyleParser::blocks
    buf,          \* the local buf of StyleParser::blocks
    blocks,       \* the Vec<StyleBlock> StyleParser::blocks returns
    shadows,      \* the box-shadow values read when the blocks become styles
    spc           \* where the style pass is

vars ==
    <<input, pc, position, inside_tag, tokens, cursor, stack, nodes, perr,
      result, var_names, ELEMENT_ID, serialized, css, buf, blocks, shadows, spc>>

\* the state of the calls of fml::parse
fml_vars ==
    <<input, pc, position, inside_tag, tokens, cursor, stack, nodes, perr,
      result, var_names, ELEMENT_ID, serialized>>

\* no error
NoError == [msg |-> "", expected |-> <<>>, found |-> <<>>]

\* an Err(String) of parse_element
Error(msg) == [msg |-> msg, expected |-> <<>>, found |-> <<>>]

\* "Mismatched closing tag: expected {name}, found {close_name}"
MismatchedClosingTag(name, close_name) ==
    [msg |-> "Mismatched closing tag", expected |-> name, found |-> close_name]

\* no node
NoNode == [type |-> "None", id |-> 0, kind |-> Kind("None"), attributes |-> <<>>,
           children |-> <<>>, content |-> <<>>, variable_refs |-> <<>>]

\* the Result<Node, String> of fml::parse; NotReturned before it returns
NotReturned == [ok |-> FALSE, node |-> NoNode, err |-> "not returned"]
Ok(node)    == [ok |-> TRUE, node |-> node, err |-> ""]
Err(msg)    == [ok |-> FALSE, node |-> NoNode, err |-> msg]

\* no style pass has started
NoStyle ==
    /\ css = <<>>
    /\ buf = <<>>
    /\ blocks = <<>>
    /\ shadows = <<>>
    /\ spc = "idle"

\* the calls of fml::parse before they start, on the inputs
InitCalls(inputs, ser) ==
    /\ input = inputs
    /\ serialized = ser
    /\ pc = [p \in Procs |-> "idle"]
    /\ position = [p \in Procs |-> 0]
    /\ inside_tag = [p \in Procs |-> FALSE]
    /\ tokens = [p \in Procs |-> <<>>]
    /\ cursor = [p \in Procs |-> 0]
    /\ stack = [p \in Procs |-> <<>>]
    /\ nodes = [p \in Procs |-> <<>>]
    /\ perr = [p \in Procs |-> NoError]
    /\ result = [p \in Procs |-> NotReturned]
    /\ var_names = [p \in Procs |-> <<>>]
    /\ ELEMENT_ID = 0

InitWith(inputs, ser) ==
    /\ InitCalls(inputs, ser)
    /\ NoStyle

\* one call, of any source text
Init == \E src \in Sources : InitWith([p \in Procs |-> IF p = 1 THEN src ELSE <<>>], TRUE)

\* ------------------------------------------------------------------------
\* Lexer::lex (fml/src/lexer.rs), one action for each arm of its loop
\* ------------------------------------------------------------------------

\* a call holds the caller's lock from its start to its return or panic
Running(p) == pc[p] \in {"lex", "lexed", "parse", "parsed"}

\* fml::parse is called: Lexer::new(source)
Start(p) ==
    /\ pc[p] = "idle"
    /\ serialized => \A q \in Procs \ {p} : ~Running(q)
    /\ pc' = [pc EXCEPT ![p] = "lex"]
    /\ position' = [position EXCEPT ![p] = 0]
    /\ UNCHANGED <<input, inside_tag, tokens, cursor, stack, nodes, perr, result,
                   var_names, ELEMENT_ID, serialized, css, buf, blocks, shadows, spc>>

\* next_char returned a character of the class
AtChar(p, class) ==
    /\ pc[p] = "lex"
    /\ position[p] < Len(input[p])
    /\ input[p][position[p] + 1] \in class

\* the end of an iteration: the arm's token is pushed, then skip_whitespace
LexIteration(p, arm) ==
    /\ tokens' = [tokens EXCEPT ![p] = @ \o arm.emit]
    /\ position' = [position EXCEPT ![p] = SkipWhitespace(input[p], arm.position)]
    /\ inside_tag' = [inside_tag EXCEPT ![p] = arm.inside_tag]
    /\ UNCHANGED <<input, pc, cursor, stack, nodes, perr, result, var_names,
                   ELEMENT_ID, serialized, css, buf, blocks, shadows, spc>>

LexTagOpen(p) ==
    /\ AtChar(p, {"<"})
    /\ LexIteration(p, ArmTagOpen(input[p], position[p], inside_tag[p]))

LexTagEnd(p) ==
    /\ AtChar(p, {">"})
    /\ LexIteration(p, ArmTagEnd(input[p], position[p], inside_tag[p]))

LexSlash(p) ==
    /\ AtChar(p, {"/"})
    /\ LexIteration(p, ArmSlash(input[p], position[p], inside_tag[p]))

LexEqual(p) ==
    /\ AtChar(p, {"="})
    /\ LexIteration(p, ArmEqual(input[p], position[p], inside_tag[p]))

LexQuote(p) ==
    /\ AtChar(p, {"\""})
    /\ LexIteration(p, ArmQuote(input[p], position[p], inside_tag[p]))

LexName(p) ==
    /\ AtChar(p, Alphabetic)
    /\ inside_tag[p]
    /\ LexIteration(p, ArmName(input[p], position[p], inside_tag[p]))

LexAlphaText(p) ==
    /\ AtChar(p, Alphabetic)
    /\ ~inside_tag[p]
    /\ LexIteration(p, ArmAlphaText(input[p], position[p], inside_tag[p]))

LexNumber(p) ==
    /\ AtChar(p, Numeric \cup {".", "-"})
    /\ LexIteration(p, ArmNumber(input[p], position[p], inside_tag[p]))

LexOtherText(p) ==
    /\ AtChar(p, Chars \ (Alphabetic \cup Numeric \cup Whitespace
                            \cup {"<", ">", "/", "=", "\"", ".", "-"}))
    /\ LexIteration(p, ArmOtherText(input[p], position[p], inside_tag[p]))

LexWhitespace(p) ==
    /\ AtChar(p, Whitespace)
    /\ LexIteration(p, ArmWhitespace(input[p], position[p], inside_tag[p]))

\* next_char returns None: lex returns its tokens
LexReturn(p) ==
    /\ pc[p] = "lex"
    /\ position[p] >= Len(input[p])
    /\ pc' = [pc EXCEPT ![p] = "lexed"]
    /\ UNCHANGED <<input, position, inside_tag, tokens, cursor, stack, nodes, perr,
                   result, var_names, ELEMENT_ID, serialized, css, buf, blocks, shadows, spc>>

\* ------------------------------------------------------------------------
\* Parser (fml/src/parser.rs)
\* ------------------------------------------------------------------------

\* what current_token gives past the last token (None)
NoToken == Token("None", <<>>, 0, 0)

\* self.tokens.get(i)
TokenAt(toks, i) == IF i < Len(toks) THEN toks[i + 1] ELSE NoToken

KindAt(toks, i) == TokenAt(toks, i).kind

\* The attribute a name token and a value token make: the value is built by
\* AttributeValue::from_token (ok = FALSE when that panics).
AttributeOf(name_token, v) ==
    [ok |-> v.ok, attribute |-> Attribute(name_token.text, v.value)]

BuildAttribute(name_token, value_token) ==
    AttributeOf(name_token, AttributeValueFromToken(value_token))

\* what a part of parse_element gives: how it ended, the position it left,
\* and the name, the attributes or the error it has
Part(status, pos, name, attributes, err) ==
    [status |-> status, cursor |-> pos, name |-> name, attributes |-> attributes,
     err |-> err]

\* the attributes loop of parse_element, from position pos
RECURSIVE ParseAttributes(_, _, _)
PushAttribute(toks, pos, attributes, a) ==
    IF a.ok
    THEN ParseAttributes(toks, pos + 3, Append(attributes, a.attribute))
    ELSE Part("panic", pos + 3, <<>>, attributes, NoError)

ParseAttributes(toks, pos, attributes) ==
    IF KindAt(toks, pos) # "AttributeName"
    THEN Part("ok", pos, <<>>, attributes, NoError)
    ELSE IF KindAt(toks, pos + 1) # "Equal"
    THEN Part("err", pos + 1, <<>>, attributes, Error("Expected Equal (=)"))
    ELSE IF KindAt(toks, pos + 2) # "AttributeValue"
    THEN Part("err", pos + 2, <<>>, attributes, Error("Expected AttributeValue"))
    ELSE PushAttribute(toks, pos, attributes,
                       BuildAttribute(TokenAt(toks, pos), TokenAt(toks, pos + 2)))

\* parse_element after its attributes a: TagSelfClose ("selfclose") or
\* TagEnd ("open")
HeadEnd(toks, name, a) ==
    IF a.status # "ok"
    THEN Part(a.status, a.cursor, name, a.attributes, a.err)
    ELSE IF KindAt(toks, a.cursor) = "TagSelfClose"
    THEN Part("selfclose", a.cursor + 1, name, a.attributes, NoError)
    ELSE IF KindAt(toks, a.cursor) # "TagEnd"
    THEN Part("err", a.cursor, name, a.attributes, Error("Expected TagEnd"))
    ELSE Part("open", a.cursor + 1, name, a.attributes, NoError)

\* parse_element up to its children: TagStart, TagName, the attributes,
\* then TagSelfClose or TagEnd
ElementHead(toks, pos) ==
    IF KindAt(toks, pos) # "TagStart"
    THEN Part("err", pos, <<>>, <<>>, Error("Expected TagStart"))
    ELSE IF KindAt(toks, pos + 1) # "TagName"
    THEN Part("err", pos + 1, <<>>, <<>>, Error("Expected TagName"))
    ELSE HeadEnd(toks, TokenAt(toks, pos + 1).text, ParseAttributes(toks, pos + 2, <<>>))

\* the closing tag read without comparing its name with the opening name
ElementTailAnyName(toks, pos, name) ==
    IF KindAt(toks, pos) # "TagClose"
    THEN Part("err", pos, name, <<>>, Error("Expected TagClose"))
    ELSE IF KindAt(toks, pos + 1) # "TagName"
    THEN Part("err", pos + 1, name, <<>>, Error("Expected TagName"))
    ELSE IF KindAt(toks, pos + 2) # "TagEnd"
    THEN Part("err", pos + 2, name, <<>>, Error("Expected TagEnd"))
    ELSE Part("ok", pos + 3, name, <<>>, NoError)

\* parse_element after its children: TagClose, the same TagName, TagEnd
ElementTail(toks, pos, name) ==
    IF KindAt(toks, pos) # "TagClose"
    THEN Part("err", pos, name, <<>>, Error("Expected TagClose"))
    ELSE IF KindAt(toks, pos + 1) # "TagName"
    THEN Part("err", pos + 1, name, <<>>, Error("Expected TagName"))
    ELSE IF TokenAt(toks, pos + 1).text # name
    THEN Part("err", pos + 1, name, <<>>,
              MismatchedClosingTag(name, TokenAt(toks, pos + 1).text))
    ELSE IF KindAt(toks, pos + 2) # "TagEnd"
    THEN Part("err", pos + 2, name, <<>>, Error("Expected TagEnd"))
    ELSE Part("ok", pos + 3, name, <<>>, NoError)

\* what the children loop of parse_element does at position pos
ChildStep(toks, pos) ==
    CASE KindAt(toks, pos) = "TagStart" /\ KindAt(toks, pos + 1) # "TagClose" -> "element"
      [] KindAt(toks, pos) = "TagStart" -> "break"
      [] KindAt(toks, pos) = "Text" -> "text"
      [] OTHER -> "break"

\* a parse_element call that is parsing its children
Frame(name, attributes) == [name |-> name, attributes |-> attributes, children |-> <<>>]

\* children.push(node) in the innermost call of calls, nodes.push(node) in
\* Parser::parse when there is none
Push(calls, top, node) ==
    IF calls = <<>>
    THEN [stack |-> calls, nodes |-> Append(top, node)]
    ELSE [stack |-> [calls EXCEPT ![Len(calls)].children = Append(@, node)],
          nodes |-> top]

\* Parser::parse, whose loop `while let Ok(node) = self.parse_element()`
\* has ended on the Err err with nodes collected: what it returns
ParserParse(collected, err) == [ok |-> TRUE, nodes |-> collected, err |-> ""]

\* fml::parse that takes more than one top-level node for an error
FmlParseOneRoot(parsed) ==
    IF ~parsed.ok THEN Err(parsed.err)
    ELSE IF Len(parsed.nodes) # 1 THEN Err("No root tag found!")
    ELSE Ok(parsed.nodes[1])

\* fml::parse after the lexer and Parser::new: `parser.parse()?`, then the
\* first node or "No root tag found!"
FmlParse(parsed) ==
    IF ~parsed.ok THEN Err(parsed.err)
    ELSE IF parsed.nodes = <<>> THEN Err("No root tag found!")
    ELSE Ok(parsed.nodes[1])

\* Parser::new(tokens): the position is 0 and the element ids start again
ParserNew(p) ==
    /\ pc[p] = "lexed"
    /\ pc' = [pc EXCEPT ![p] = "parse"]
    /\ cursor' = [cursor EXCEPT ![p] = 0]
    /\ ELEMENT_ID' = ElementIdReset(ELEMENT_ID)
    /\ UNCHANGED <<input, position, inside_tag, tokens, stack, nodes, perr, result,
                   var_names, serialized, css, buf, blocks, shadows, spc>>

\* parse_element is called at the current position: by the loop of
\* Parser::parse, or by the children loop of the innermost call
CallsParseElement(p) ==
    /\ pc[p] = "parse"
    /\ stack[p] = <<>> \/ ChildStep(tokens[p], cursor[p]) = "element"

\* the children loop of the innermost call is at the current position
InChildrenLoop(p) ==
    /\ pc[p] = "parse"
    /\ stack[p] # <<>>

\* parse_element reads <name attrs> and goes on to its children
OpenElement(p, h) ==
    /\ h.status = "open"
    /\ stack' = [stack EXCEPT ![p] = Append(@, Frame(h.name, h.attributes))]
    /\ cursor' = [cursor EXCEPT ![p] = h.cursor]
    /\ UNCHANGED <<input, pc, position, inside_tag, tokens, nodes, perr, result,
                   var_names, ELEMENT_ID, serialized, css, buf, blocks, shadows, spc>>

ParseElementOpen(p) ==
    /\ CallsParseElement(p)
    /\ OpenElement(p, ElementHead(tokens[p], cursor[p]))

\* parse_element returns element: it is pushed where the call was made
\* from, and the position is pos
ReturnElement(p, calls, element, pos) ==
    /\ ELEMENT_ID' = ElementIdNext(ELEMENT_ID).counter
    /\ stack' = [stack EXCEPT ![p] = Push(calls, nodes[p], element).stack]
    /\ nodes' = [nodes EXCEPT ![p] = Push(calls, nodes[p], element).nodes]
    /\ cursor' = [cursor EXCEPT ![p] = pos]
    /\ UNCHANGED <<input, pc, position, inside_tag, tokens, perr, result,
                   var_names, serialized, css, buf, blocks, shadows, spc>>

\* parse_element fails with err at position pos: the Err goes up through
\* every call in progress and ends the loop of Parser::parse
FailElement(p, err, pos) ==
    /\ perr' = [perr EXCEPT ![p] = err]
    /\ cursor' = [cursor EXCEPT ![p] = pos]
    /\ stack' = [stack EXCEPT ![p] = <<>>]
    /\ pc' = [pc EXCEPT ![p] = "parsed"]
    /\ UNCHANGED <<input, position, inside_tag, tokens, nodes, result, var_names,
                   ELEMENT_ID, serialized, css, buf, blocks, shadows, spc>>

\* parse_element reads <name attrs/> and returns the element
SelfCloseElement(p, h) ==
    /\ h.status = "selfclose"
    /\ ReturnElement(p, stack[p], ElementNew(h.name, h.attributes, <<>>, ELEMENT_ID),
                     h.cursor)

ParseElementSelfClose(p) ==
    /\ CallsParseElement(p)
    /\ SelfCloseElement(p, ElementHead(tokens[p], cursor[p]))

\* parse_element fails before its children
FailHead(p, h) ==
    /\ h.status = "err"
    /\ FailElement(p, h.err, h.cursor)

ParseElementFail(p) ==
    /\ CallsParseElement(p)
    /\ FailHead(p, ElementHead(tokens[p], cursor[p]))

\* building an attribute panics: the call of fml::parse aborts
PanicHead(p, h) ==
    /\ h.status = "panic"
    /\ cursor' = [cursor EXCEPT ![p] = h.cursor]
    /\ pc' = [pc EXCEPT ![p] = "panicked"]
    /\ UNCHANGED <<input, position, inside_tag, tokens, stack, nodes, perr, result,
                   var_names, ELEMENT_ID, serialized, css, buf, blocks, shadows, spc>>

ParseAttributePanic(p) ==
    /\ CallsParseElement(p)
    /\ PanicHead(p, ElementHead(tokens[p], cursor[p]))

\* the children loop pushes a Text token and stays on it
ParseChildTextStay(p) ==
    /\ InChildrenLoop(p)
    /\ ChildStep(tokens[p], cursor[p]) = "text"
    /\ stack' = [stack EXCEPT ![p] =
                    Push(@, nodes[p], TextNode(TokenAt(tokens[p], cursor[p]).text)).stack]
    /\ UNCHANGED <<input, pc, position, inside_tag, tokens, cursor, nodes, perr, result,
                   var_names, ELEMENT_ID, serialized, css, buf, blocks, shadows, spc>>

\* the children loop meets a Text token
ParseChildText(p) ==
    /\ InChildrenLoop(p)
    /\ ChildStep(tokens[p], cursor[p]) = "text"
    /\ stack' = [stack EXCEPT ![p] =
                    Push(@, nodes[p], TextNode(TokenAt(tokens[p], cursor[p]).text)).stack]
    /\ cursor' = [cursor EXCEPT ![p] = @ + 1]
    /\ UNCHANGED <<input, pc, position, inside_tag, tokens, nodes, perr, result,
                   var_names, ELEMENT_ID, serialized, css, buf, blocks, shadows, spc>>

\* the innermost parse_element call in progress
Innermost(p) == stack[p][Len(stack[p])]

\* the children loop breaks and parse_element reads </name>: it returns the
\* element with its children
CloseElement(p, frame, t) ==
    /\ t.status = "ok"
    /\ ReturnElement(p, SubSeq(stack[p], 1, Len(stack[p]) - 1),
                     ElementNew(frame.name, frame.attributes, frame.children, ELEMENT_ID),
                     t.cursor)

ParseElementClose(p) ==
    /\ InChildrenLoop(p)
    /\ ChildStep(tokens[p], cursor[p]) = "break"
    /\ CloseElement(p, Innermost(p), ElementTail(tokens[p], cursor[p], Innermost(p).name))

\* the children loop breaks and the closing tag is not there
FailTail(p, t) ==
    /\ t.status = "err"
    /\ FailElement(p, t.err, t.cursor)

ParseCloseFail(p) ==
    /\ InChildrenLoop(p)
    /\ ChildStep(tokens[p], cursor[p]) = "break"
    /\ FailTail(p, ElementTail(tokens[p], cursor[p], Innermost(p).name))

\* Parser::parse has returned: fml::parse returns
ParseReturn(p) ==
    /\ pc[p] = "parsed"
    /\ result' = [result EXCEPT ![p] = FmlParse(ParserParse(nodes[p], perr[p]))]
    /\ pc' = [pc EXCEPT ![p] = "returned"]
    /\ UNCHANGED <<input, position, inside_tag, tokens, cursor, stack, nodes, perr,
                   var_names, ELEMENT_ID, serialized, css, buf, blocks, shadows, spc>>

\* ------------------------------------------------------------------------
\* build_label (fiber/src/builders.rs)
\* ------------------------------------------------------------------------

\* str::split_once(':') of a name, taking the part after the ':'
AfterColon(name) == Slice(name, FindFrom(name, 0, ":") + 1, Len(name))

\* the state key looked up for a variable name: none for a name without ':'
Key(name) == IF Contains(name, ":") THEN <<AfterColon(name)>> ELSE <<>>

\* the state keys the loop over t.variable_refs looks up: for each ref,
\* var.name().split_once(':'), skipping the names without ':'
RECURSIVE LookedUp(_)
LookedUp(refs) ==
    IF refs = <<>> THEN <<>>
    ELSE Key(VariableRefName(refs[1]).name) \o LookedUp(Tail(refs))

\* fml::parse returned a label whose children are one or more texts
BuildsLabel(p) ==
    /\ pc[p] = "returned"
    /\ result[p].ok
    /\ result[p].node.kind.tag = "Label"
    /\ result[p].node.children # <<>>
    /\ \A i \in 1..Len(result[p].node.children) :
           result[p].node.children[i].type = "Text"

\* build_label goes through the variable references refs of the first text
LookUp(p, refs) ==
    /\ \A i \in 1..Len(refs) : VariableRefName(refs[i]).ok
    /\ var_names' = [var_names EXCEPT ![p] = LookedUp(refs)]
    /\ pc' = [pc EXCEPT ![p] = "built"]
    /\ UNCHANGED <<input, position, inside_tag, tokens, cursor, stack, nodes, perr,
                   result, ELEMENT_ID, serialized, css, buf, blocks, shadows, spc>>

BuildLabel(p) ==
    /\ BuildsLabel(p)
    /\ LookUp(p, result[p].node.children[1].variable_refs)

\* var.name() slices out of range: build_label panics
LookUpPanic(p, refs) ==
    /\ \E i \in 1..Len(refs) : ~VariableRefName(refs[i]).ok
    /\ pc' = [pc EXCEPT ![p] = "build_panicked"]
    /\ UNCHANGED <<input, position, inside_tag, tokens, cursor, stack, nodes, perr,
                   result, var_names, ELEMENT_ID, serialized, css, buf, blocks, shadows, spc>>

BuildLabelPanic(p) ==
    /\ BuildsLabel(p)
    /\ LookUpPanic(p, result[p].node.children[1].variable_refs)

\* ------------------------------------------------------------------------
\* Specifications
\* ------------------------------------------------------------------------

\* one call of fml::parse on any source text, then build_label on a label
Next ==
    \/ Start(1)
    \/ LexTagOpen(1)
    \/ LexTagEnd(1)
    \/ LexSlash(1)
    \/ LexEqual(1)
    \/ LexQuote(1)
    \/ LexName(1)
    \/ LexAlphaText(1)
    \/ LexNumber(1)
    \/ LexOtherText(1)
    \/ LexWhitespace(1)
    \/ LexReturn(1)
    \/ ParserNew(1)
    \/ ParseElementOpen(1)
    \/ ParseElementSelfClose(1)
    \/ ParseElementFail(1)
    \/ ParseAttributePanic(1)
    \/ ParseChildText(1)
    \/ ParseElementClose(1)
    \/ ParseCloseFail(1)
    \/ ParseReturn(1)
    \/ BuildLabel(1)
    \/ BuildLabelPanic(1)

Spec == Init /\ [][Next]_vars

\* two calls of fml::parse on one shared ELEMENT_ID, either serialized by
\* the caller or running at the same time
InitTwo ==
    \E inputs \in [Procs -> RaceSources], ser \in BOOLEAN : InitWith(inputs, ser)

NextTwo ==
    \E p \in Procs :
        \/ Start(p)
        \/ LexTagOpen(p)
        \/ LexTagEnd(p)
        \/ LexSlash(p)
        \/ LexEqual(p)
        \/ LexQuote(p)
        \/ LexName(p)
        \/ LexAlphaText(p)
        \/ LexNumber(p)
        \/ LexOtherText(p)
        \/ LexWhitespace(p)
        \/ LexReturn(p)
        \/ ParserNew(p)
        \/ ParseElementOpen(p)
        \/ ParseElementSelfClose(p)
        \/ ParseElementFail(p)
        \/ ParseAttributePanic(p)
        \/ ParseChildText(p)
        \/ ParseElementClose(p)
        \/ ParseCloseFail(p)
        \/ ParseReturn(p)

SpecTwo == InitTwo /\ [][NextTwo]_vars

\* ------------------------------------------------------------------------
\* Properties
\* ------------------------------------------------------------------------

\* fml::parse has returned to its caller
Returned(p) == pc[p] \in {"returned", "built", "build_panicked"}

\* the ids of the elements of a node, each element before its children, and
\* of a list of nodes
RECURSIVE PreOrderIds(_)
RECURSIVE PreOrderIdsOf(_)
PreOrderIdsOf(children) ==
    IF children = <<>> THEN <<>>
    ELSE PreOrderIds(children[1]) \o PreOrderIdsOf(Tail(children))

PreOrderIds(node) ==
    IF node.type # "Element" THEN <<>>
    ELSE <<node.id>> \o PreOrderIdsOf(node.children)

\* the ids of the elements of a node, each element after its children, and
\* of a list of nodes
RECURSIVE PostOrderIds(_)
RECURSIVE PostOrderIdsOf(_)
PostOrderIdsOf(children) ==
    IF children = <<>> THEN <<>>
    ELSE PostOrderIds(children[1]) \o PostOrderIdsOf(Tail(children))

PostOrderIds(node) ==
    IF node.type # "Element" THEN <<>>
    ELSE PostOrderIdsOf(node.children) \o <<node.id>>

StrictlyIncreasing(ids) == \A i \in 1..(Len(ids) - 1) : ids[i] < ids[i + 1]

Distinct(ids) == \A i, j \in 1..Len(ids) : i # j => ids[i] # ids[j]

\* C1: for every well-formed document with one top-level element, lexing
\* and then Parser::parse do not abort and give exactly one node, which is
\* an Element.
C1_WellFormedOneElement ==
    \A p \in Procs :
        input[p] \in WellFormed =>
            /\ pc[p] # "panicked"
            /\ pc[p] = "parsed" =>
                   /\ Len(nodes[p]) = 1
                   /\ nodes[p][1].type = "Element"

\* C2: fml::parse returns Err("No root tag found!") exactly when the parser
\* gave no top-level node, and with one or more top-level nodes (two or more
\* included) it returns Ok of the first in source order.
C2_RootResult ==
    \A p \in Procs :
        Returned(p) =>
            /\ result[p] = Err("No root tag found!") <=> nodes[p] = <<>>
            /\ nodes[p] # <<>> => result[p] = Ok(nodes[p][1])

\* C2 witness: fml::parse returned the first of two or more top-level nodes
C2_Witness ==
    \E p \in Procs :
        /\ Returned(p)
        /\ Len(nodes[p]) >= 2
        /\ result[p] = Ok(nodes[p][1])
        /\ nodes[p][2] # nodes[p][1]

\* the call p is at a closing tag whose name is not the name of the element
\* being closed
ClosesOtherName(p) ==
    /\ InChildrenLoop(p)
    /\ KindAt(tokens[p], cursor[p]) = "TagClose"
    /\ KindAt(tokens[p], cursor[p] + 1) = "TagName"
    /\ TokenAt(tokens[p], cursor[p] + 1).text # Innermost(p).name

C4_FailFast ==
    \A p \in Procs :
        (Returned(p) /\ perr[p].msg \notin {"", "Expected TagStart"}) =>
            ~result[p].ok

\* C5 as stated: within one parse pass that starts with the counter reset,
\* the ids of the elements of the returned AST are strictly increasing in
\* pre-order (every element's id is smaller than its descendants' ids).
C5_PreOrderIds ==
    \A p \in Procs :
        (Returned(p) /\ result[p].ok) =>
            StrictlyIncreasing(PreOrderIds(result[p].node))

\* C5 as amended: within one parse pass that starts with the counter reset,
\* the ids of the elements of the returned AST are pairwise distinct and
\* strictly increasing in the order in which the elements end in the source
\* (post-order): every element's id is greater than its descendants' ids.
C5_PostOrderIds ==
    \A p \in Procs :
        (Returned(p) /\ result[p].ok) =>
            /\ StrictlyIncreasing(PostOrderIds(result[p].node))
            /\ Distinct(PreOrderIds(result[p].node))
            /\ \A i \in 1..Len(result[p].node.children) :
                   result[p].node.children[i].type = "Element" =>
                       result[p].node.children[i].id < result[p].node.id

\* C5 witness: a returned element with a child element that has a child
\* element of its own, and a second child element
C5_Witness ==
    \E p \in Procs :
        /\ Returned(p)
        /\ result[p].ok
        /\ Len(PostOrderIds(result[p].node)) >= 4
        /\ \E i \in 1..Len(result[p].node.children) :
               /\ result[p].node.children[i].type = "Element"
               /\ Len(PostOrderIds(result[p].node.children[i])) >= 2

C8_Classified(v) ==
    CASE v = <<"5">> -> AVInteger(5)
      [] v = <<"-", "3">> -> AVInteger(0 - 3)
      [] v = <<"1", ".", "5">> ->
           AVFloat(F64(TRUE, "", FALSE, [mant |-> 15, scale |-> 1]))
      [] OTHER -> AVString(v)

\* the ElementKind of the tag names of the documents
C8_KindOf(n) ==
    CASE n = NInput -> Kind("Input")
      [] n = NBox -> Kind("Box")
      [] n = NLabel -> Kind("Label")
      [] OTHER -> [tag |-> "Custom", name |-> n]

\* the call p has parsed <n a="v"/> into the one element the round trip gives
C8_RoundTrip(p, n, a, v) ==
    /\ Len(tokens[p]) = 6
    /\ tokens[p][6].kind = "TagSelfClose"
    /\ cursor[p] = 6
    /\ Len(nodes[p]) = 1
    /\ result[p].ok
    /\ result[p].node.type = "Element"
    /\ result[p].node.kind = C8_KindOf(n)
    /\ result[p].node.children = <<>>
    /\ Len(result[p].node.attributes) = 1
    /\ result[p].node.attributes[1].name = a
    /\ IF Contains(v, ":")
       THEN result[p].node.attributes[1].value.type = "Variable"
       ELSE result[p].node.attributes[1].value = C8_Classified(v)

C9_Inner(content, ref) == Slice(content, ref.start + 1, ref.end - 1)

\* a reference {type:name} of content has a span inside content that covers
\* it, the kind of type, and name() = name
C9_RefRight(content, ref) ==
    /\ 0 <= ref.start
    /\ ref.start < ref.end
    /\ ref.end <= Len(content)
    /\ content[ref.start + 1] = "{"
    /\ content[ref.end] = "}"
    /\ Contains(C9_Inner(content, ref), ":") =>
           /\ ref.kind = VariableTypeFrom(
                   Slice(C9_Inner(content, ref), 0,
                         FindFrom(C9_Inner(content, ref), 0, ":")))
           /\ VariableRefName(ref).ok
           /\ VariableRefName(ref).name = AfterColon(C9_Inner(content, ref))

\* C9: every text of a parsed element carries, for an occurrence
\* {type:name} at any offset, a VariableRef whose span is a sub-range of the
\* content that covers the occurrence, whose kind is that of type and whose
\* name() is name, and name() never indexes out of range ("Count:
\* {int:counter}" has one reference, and building the label does not panic).
C9_VariableRefNames ==
    \A p \in Procs :
        /\ pc[p] # "build_panicked"
        /\ (Returned(p) /\ result[p].ok) =>
               \A i \in 1..Len(result[p].node.children) :
                   result[p].node.children[i].type = "Text" =>
                       \A r \in 1..Len(result[p].node.children[i].variable_refs) :
                           C9_RefRight(result[p].node.children[i].content,
                                       result[p].node.children[i].variable_refs[r])

\* C10: no call of fml::parse aborts: an attribute value that cannot be
\* built, such as a quoted value with a line break, makes the call return.
C10_NoPanic ==
    \A p \in Procs : pc[p] # "panicked"

\* C11: AttributeValue::new returns an Err for every input that contains a
\* line break and Ok for every input that contains none: of the documents
\* <NAME ATTR="V"/>, those whose V has a line break never get their
\* attribute built, and only those make the unwrap of the Err abort the call.
C11_LineBreakRejected ==
    \A p \in Procs, n \in Names, a \in AttrNames, v \in AttrValues :
        input[p] = SelfClosing(n, QuotedAttr(a, v)) =>
            /\ pc[p] = "panicked" => Contains(v, "\n")
            /\ Contains(v, "\n") => nodes[p] = <<>>

\* offset i of the input of p lies inside the span of a token of p
InSpan(p, i) ==
    \E t \in 1..Len(tokens[p]) : tokens[p][t].start <= i /\ i < tokens[p][t].end

\* C12: lex returns a token list for every input, and every character of
\* the input that is not whitespace lies inside the span of a token.
C12_NoInputDropped ==
    \A p \in Procs :
        pc[p] = "lexed" =>
            \A i \in 0..(Len(input[p]) - 1) :
                input[p][i + 1] \notin Whitespace => InSpan(p, i)

\* the stretch of the source s outside a tag that starts at offset from:
\* from its first character that is not whitespace up to the next '<'
TextStretch(s, from) ==
    Slice(s, SkipWhitespace(s, from), FindFrom(s, SkipWhitespace(s, from), "<"))

\* C13: after a TagEnd and before the next '<' the lexer emits at most one
\* token, of kind Text, whose text is the whole stretch from its first
\* character that is not whitespace up to the next '<', whatever that
\* character is (a second '>' apart); no other kind of token is emitted
\* there.
C13_TextOutsideTag ==
    \A p \in Procs :
        pc[p] = "lexed" =>
            \A t \in 1..(Len(tokens[p]) - 1) :
                (/\ tokens[p][t].kind = "TagEnd"
                 /\ PeekChar(input[p], SkipWhitespace(input[p], tokens[p][t].end)) # ">") =>
                    \/ tokens[p][t + 1].kind \in {"TagStart", "TagClose"}
                    \/ /\ tokens[p][t + 1].kind = "Text"
                       /\ tokens[p][t + 1].text = TextStretch(input[p], tokens[p][t].end)
                       /\ t + 2 <= Len(tokens[p]) =>
                              tokens[p][t + 2].kind \in {"TagStart", "TagClose"}

\* ------------------------------------------------------------------------
\* Text helpers of the style parser (fiber/src/theme/parser.rs)
\* ------------------------------------------------------------------------

\* the least offset in 0..n that satisfies P, n when none does
FirstOffset(n, P(_)) ==
    IF \E i \in 0..n : P(i)
    THEN CHOOSE i \in 0..n : P(i) /\ \A j \in 0..(i - 1) : ~P(j)
    ELSE n

\* str::trim
Trim(s) == TrimMatches(s, Whitespace)

\* s has the text sub at offset i
StartsAt(s, i, sub) == i + Len(sub) <= Len(s) /\ Slice(s, i, i + Len(sub)) = sub

\* str::starts_with
StartsWith(s, sub) == StartsAt(s, 0, sub)

\* str::contains(&str)
ContainsStr(s, sub) == \E i \in 0..Len(s) : StartsAt(s, i, sub)

\* str::find(&str) of a text sub that is not empty: Len(s) when s has none
FindStr(s, sub) == FirstOffset(Len(s), LAMBDA i : StartsAt(s, i, sub))

\* str::replace(from, to): every occurrence, left to right, not overlapping
RECURSIVE ReplaceStr(_, _, _)
ReplaceAt(s, i, from, to) ==
    IF i = Len(s) THEN s
    ELSE Slice(s, 0, i) \o to \o ReplaceStr(Slice(s, i + Len(from), Len(s)), from, to)

ReplaceStr(s, from, to) == ReplaceAt(s, FindStr(s, from), from, to)

\* str::replace([..], ""): the characters of set removed
RemoveChars(s, set) == SelectSeq(s, LAMBDA ch : ch \notin set)

\* str::split_inclusive(c): the pieces end with c, but for a last piece
\* without it; no piece for an empty text
RECURSIVE SplitInclusive(_, _)
SplitInclusiveAt(s, i, c) ==
    IF s = <<>> THEN <<>>
    ELSE IF i = Len(s) THEN <<s>>
    ELSE <<Slice(s, 0, i + 1)>> \o SplitInclusive(Slice(s, i + 1, Len(s)), c)

SplitInclusive(s, c) == SplitInclusiveAt(s, FindFrom(s, 0, c), c)

\* str::split(c): the pieces between the occurrences of c
RECURSIVE Split(_, _)
SplitAt(s, i, c) ==
    IF i = Len(s) THEN <<s>>
    ELSE <<Slice(s, 0, i)>> \o Split(Slice(s, i + 1, Len(s)), c)

Split(s, c) == SplitAt(s, FindFrom(s, 0, c), c)

\* str::split_whitespace: the runs of characters that are not whitespace
RECURSIVE SplitWhitespace(_)
WordsAt(s, b, e) ==
    IF b = Len(s) THEN <<>>
    ELSE <<Slice(s, b, e)>> \o SplitWhitespace(Slice(s, e, Len(s)))

SplitWhitespace(s) ==
    WordsAt(s, SkipWhitespace(s, 0),
            RunWhile(s, SkipWhitespace(s, 0), Chars \ Whitespace))

\* str::strip_suffix: [ok, rest]
StripSuffix(s, suffix) ==
    IF Len(suffix) <= Len(s) /\ StartsAt(s, Len(s) - Len(suffix), suffix)
    THEN [ok |-> TRUE, rest |-> Slice(s, 0, Len(s) - Len(suffix))]
    ELSE [ok |-> FALSE, rest |-> <<>>]

\* COMMENT_REGEX \/\*[^\*]+\*\/ matches at offset i: "/*", one or more
\* characters other than '*', then "*/"
CommentAt(s, i) ==
    /\ StartsAt(s, i, <<"/", "*">>)
    /\ FindFrom(s, i + 2, "*") > i + 2
    /\ PeekChar(s, FindFrom(s, i + 2, "*") + 1) = "/"

\* COMMENT_REGEX.replace_all(buf, ""): the matches removed, leftmost first
RECURSIVE ReplaceComments(_)
ReplaceCommentAt(s, i) ==
    IF i = Len(s) THEN s
    ELSE Slice(s, 0, i)
             \o ReplaceComments(Slice(s, FindFrom(s, i + 2, "*") + 2, Len(s)))

ReplaceComments(s) ==
    ReplaceCommentAt(s, FirstOffset(Len(s), LAMBDA i : CommentAt(s, i)))

\* a pattern open ([^close]+) close matches at offset i
GroupAt(s, i, open, close) ==
    /\ PeekChar(s, i) = open
    /\ FindFrom(s, i + 1, close) > i + 1
    /\ FindFrom(s, i + 1, close) < Len(s)

\* Regex::captures of such a pattern: group 1 of the leftmost match
CapturesAt(s, i, close) ==
    IF i = Len(s) THEN [ok |-> FALSE, group |-> <<>>]
    ELSE [ok |-> TRUE, group |-> Slice(s, i + 1, FindFrom(s, i + 1, close))]

\* BRACES_REGEX \{([^}]+)\} and BRACKETS_REGEX \(([^)]+)\)
BracesCaptures(s) ==
    CapturesAt(s, FirstOffset(Len(s), LAMBDA i : GroupAt(s, i, "{", "}")), "}")

BracketsCaptures(s) ==
    CapturesAt(s, FirstOffset(Len(s), LAMBDA i : GroupAt(s, i, "(", ")")), ")")

\* ------------------------------------------------------------------------
\* Selectors, properties and blocks (fiber/src/theme/parser.rs)
\* ------------------------------------------------------------------------

\* StyleError::new(error, value)
StyleError(error, value) == [error |-> error, value |-> value]

\* impl FromStr for Selector: [ok, selector]
SelectorFromStr(s) ==
    CASE s = <<"a", "c", "t", "i", "v", "e">> -> [ok |-> TRUE, selector |-> "Active"]
      [] s = <<"f", "o", "c", "u", "s">> -> [ok |-> TRUE, selector |-> "Focus"]
      [] s = <<"h", "o", "v", "e", "r">> -> [ok |-> TRUE, selector |-> "Hover"]
      [] s = <<"d", "i", "s", "a", "b", "l", "e", "d">> -> [ok |-> TRUE, selector |-> "Disabled"]
      [] OTHER -> [ok |-> FALSE, selector |-> "None"]

\* struct ClassSelector; selector is "None" for Option::None
ClassSelector(class, selector) == [class |-> class, selector |-> selector]

\* the Result of ClassSelector::from_str
ClassSelectorOk(class, selector) ==
    [ok |-> TRUE, value |-> ClassSelector(class, selector)]

ClassSelectorErr == [ok |-> FALSE, value |-> ClassSelector(<<>>, "None")]

\* ClassSelector::from_str of class ':' selector, both trimmed
ClassSelectorOfPair(class, selector) ==
    IF class = <<>> \/ selector = <<>> \/ ~SelectorFromStr(selector).ok
    THEN ClassSelectorErr
    ELSE ClassSelectorOk(class, SelectorFromStr(selector).selector)

\* ClassSelector::from_str of the trimmed text s
ClassSelectorOfTrimmed(s) ==
    IF s = <<>> THEN ClassSelectorErr
    ELSE IF ~Contains(s, ":") THEN ClassSelectorOk(s, "None")
    ELSE ClassSelectorOfPair(Trim(Slice(s, 0, FindFrom(s, 0, ":"))),
                             Trim(Slice(s, FindFrom(s, 0, ":") + 1, Len(s))))

\* impl FromStr for ClassSelector
ClassSelectorFromStr(s) == ClassSelectorOfTrimmed(Trim(s))

\* the characters in the order of their codes, which is the order of str
AsciiOrder ==
    <<"\t", "\n", " ", "!", "\"", "#", "%", "(", ")", "*", ",", "-", ".", "/",
      "0", "1", "2", "3", "4", "5", "6", "7", "8", "9", ":", ";", "<", "=", ">",
      "C", "\\", "a", "b", "c", "d", "e", "f", "g", "h", "i", "k", "l", "n", "o",
      "p", "r", "s", "t", "u", "v", "w", "x", "y", "{", "}">>

CharCode(c) == CHOOSE i \in 1..Len(AsciiOrder) : AsciiOrder[i] = c

\* impl Ord for str: a < b
StrLess(a, b) ==
    \E k \in 1..(Len(a) + 1) :
        /\ k <= Len(b)
        /\ \A j \in 1..(k - 1) : a[j] = b[j]
        /\ k = Len(a) + 1 \/ CharCode(a[k]) < CharCode(b[k])

\* derive(Ord) for Option<Selector>: None, then the variants in their order
SelectorRank(selector) ==
    CASE selector = "None" -> 0
      [] selector = "Active" -> 1
      [] selector = "Focus" -> 2
      [] selector = "Hover" -> 3
      [] selector = "Disabled" -> 4

\* derive(Ord) for ClassSelector: by class, then by selector
ClassSelectorLess(x, y) ==
    \/ StrLess(x.class, y.class)
    \/ x.class = y.class /\ SelectorRank(x.selector) < SelectorRank(y.selector)

\* x put at the end of the list, whatever its order
InsertSortedLast(x, sorted) == sorted \o <<x>>

\* x put into the sorted list after the elements that are not greater
InsertSorted(x, sorted) ==
    SelectSeq(sorted, LAMBDA y : ~ClassSelectorLess(x, y)) \o <<x>>
        \o SelectSeq(sorted, LAMBDA y : ClassSelectorLess(x, y))

\* selectors.sort()
RECURSIVE SortSelectors(_)
SortSelectors(selectors) ==
    IF selectors = <<>> THEN <<>>
    ELSE InsertSorted(selectors[Len(selectors)],
                      SortSelectors(SubSeq(selectors, 1, Len(selectors) - 1)))

\* class.split(',').flat_map(ClassSelector::from_str): the Ok ones
RECURSIVE ValidSelectors(_)
ValidSelectors(parts) ==
    IF parts = <<>> THEN <<>>
    ELSE (IF ClassSelectorFromStr(parts[1]).ok
          THEN <<ClassSelectorFromStr(parts[1]).value>> ELSE <<>>)
             \o ValidSelectors(Tail(parts))

\* struct StyleProperty
StyleProperty(key, value) == [key |-> key, value |-> value]

\* StyleProperty::from_str of the trimmed text t of s
StylePropertyOfTrimmed(s, t) ==
    IF ~Contains(t, ":")
    THEN [ok |-> FALSE, prop |-> StyleProperty(<<>>, <<>>),
          err |-> StyleError("Expecting key value pair with :", s)]
    ELSE [ok |-> TRUE,
          prop |-> StyleProperty(Trim(Slice(t, 0, FindFrom(t, 0, ":"))),
                                 Trim(Slice(t, FindFrom(t, 0, ":") + 1, Len(t)))),
          err |-> StyleError("", <<>>)]

\* impl FromStr for StyleProperty
StylePropertyFromStr(s) == StylePropertyOfTrimmed(s, Trim(s))

\* the filter_map of StyleBlock::from_str: the pieces trimmed and without
\* ';', '{' and '}', those that are then empty left out
RECURSIVE Fragments(_)
Fragments(pieces) ==
    IF pieces = <<>> THEN <<>>
    ELSE (IF RemoveChars(Trim(pieces[1]), {";", "{", "}"}) = <<>> THEN <<>>
          ELSE <<RemoveChars(Trim(pieces[1]), {";", "{", "}"})>>)
             \o Fragments(Tail(pieces))

\* the fold of StyleBlock::from_str: the properties and the errors
PropsOf(fragments) ==
    [i \in 1..Len(SelectSeq(fragments, LAMBDA f : StylePropertyFromStr(f).ok)) |->
        StylePropertyFromStr(
            SelectSeq(fragments, LAMBDA f : StylePropertyFromStr(f).ok)[i]).prop]

ErrorsOf(fragments) ==
    [i \in 1..Len(SelectSeq(fragments, LAMBDA f : ~StylePropertyFromStr(f).ok)) |->
        StylePropertyFromStr(
            SelectSeq(fragments, LAMBDA f : ~StylePropertyFromStr(f).ok)[i]).err]

\* struct StyleBlock
StyleBlock(selectors, props, errors) ==
    [selectors |-> selectors, props |-> props, errors |-> errors]

\* StyleBlock::from_str that fails on the first malformed fragment
StyleBlockOfPartsStrict(class, fragments) ==
    IF class = <<>> \/ ErrorsOf(fragments) # <<>>
    THEN [ok |-> FALSE, block |-> StyleBlock(<<>>, <<>>, <<>>)]
    ELSE [ok |-> TRUE,
          block |-> StyleBlock(SortSelectors(ValidSelectors(Split(class, ","))),
                               PropsOf(fragments), <<>>)]

\* StyleBlock::from_str of class '{' rest: [ok, block]
StyleBlockOfParts(class, fragments) ==
    IF class = <<>>
    THEN [ok |-> FALSE, block |-> StyleBlock(<<>>, <<>>, <<>>)]
    ELSE [ok |-> TRUE,
          block |-> StyleBlock(SortSelectors(ValidSelectors(Split(class, ","))),
                               PropsOf(fragments), ErrorsOf(fragments))]

\* StyleBlock::from_str that takes a chunk without '{' for an empty block
StyleBlockFromStrLenient(s) ==
    IF ~Contains(s, "{")
    THEN [ok |-> TRUE, block |-> StyleBlock(<<>>, <<>>, <<>>)]
    ELSE StyleBlockOfParts(
             Slice(s, 0, FindFrom(s, 0, "{")),
             Fragments(SplitInclusive(Slice(s, FindFrom(s, 0, "{") + 1, Len(s)), ";")))

\* impl FromStr for StyleBlock
StyleBlockFromStr(s) ==
    IF ~Contains(s, "{")
    THEN [ok |-> FALSE, block |-> StyleBlock(<<>>, <<>>, <<>>)]
    ELSE StyleBlockOfParts(
             Slice(s, 0, FindFrom(s, 0, "{")),
             Fragments(SplitInclusive(Slice(s, FindFrom(s, 0, "{") + 1, Len(s)), ";")))

\* the first chunk of buf that contains ":root": <<>> when there is none
RootChunk(chunks) ==
    IF SelectSeq(chunks, LAMBDA c : ContainsStr(c, <<":", "r", "o", "o", "t">>)) = <<>> THEN <<>>
    ELSE SelectSeq(chunks, LAMBDA c : ContainsStr(c, <<":", "r", "o", "o", "t">>))[1]

\* the entries key: value of the root block's body, key and value trimmed
RECURSIVE RootVars(_)
RootVarOf(t) ==
    IF t = <<>> \/ ~Contains(t, ":") THEN <<>>
    ELSE <<[k |-> Trim(Slice(t, 0, FindFrom(t, 0, ":"))),
            v |-> Trim(Slice(t, FindFrom(t, 0, ":") + 1, Len(t)))]>>

RootVars(pieces) ==
    IF pieces = <<>> THEN <<>>
    ELSE RootVarOf(Trim(pieces[1])) \o RootVars(Tail(pieces))

\* for (k, v) in vars { buf = buf.replace("var(k)", v) }
RECURSIVE Substitute(_, _)
Substitute(b, root_vars) ==
    IF root_vars = <<>> THEN b
    ELSE Substitute(ReplaceStr(b, <<"v", "a", "r", "(">> \o root_vars[1].k \o <<")">>, root_vars[1].v),
                    Tail(root_vars))

\* the chunks that become blocks: map(StyleBlock::from_str), the Ok ones
RECURSIVE BlocksOf(_)
BlocksOf(chunks) ==
    IF chunks = <<>> THEN <<>>
    ELSE (IF StyleBlockFromStr(chunks[1]).ok
          THEN <<StyleBlockFromStr(chunks[1]).block>> ELSE <<>>)
             \o BlocksOf(Tail(chunks))

\* ------------------------------------------------------------------------
\* Property values: lengths, colours and box shadows
\* ------------------------------------------------------------------------

\* the Result of a value parser
ValueErr == [ok |-> FALSE]

\* the f64 of a pixel or percent literal without its unit
LengthOf(unit, float) ==
    IF float.ok THEN [ok |-> TRUE, unit |-> unit, value |-> float] ELSE ValueErr

\* parse_px: strip_suffix("px"), the spaces removed, f64::from_str
ParsePxOf(stripped) ==
    IF stripped.ok THEN LengthOf("px", ParseF64(RemoveChars(stripped.rest, {" "})))
    ELSE ValueErr

ParsePx(s) == ParsePxOf(StripSuffix(s, <<"p", "x">>))

\* parse_pct: strip_suffix('%'), the spaces removed, f64::from_str
ParsePctOf(stripped) ==
    IF stripped.ok THEN LengthOf("pct", ParseF64(RemoveChars(stripped.rest, {" "})))
    ELSE ValueErr

ParsePct(s) == ParsePctOf(StripSuffix(s, <<"%">>))

\* parse_px_pct
ParsePxPct(s) == IF ParsePx(s).ok THEN ParsePx(s) ELSE ParsePct(s)

\* Px(0.0), the default of the lengths of a BoxShadow
ZeroPx == [ok |-> TRUE, unit |-> "px", value |-> ParseF64(<<"0">>)]

\* Color::rgba8
Rgba8(r, g, b, a) == [ok |-> TRUE, r |-> r, g |-> g, b |-> b, a |-> a]

\* Color::BLACK, the default colour of a BoxShadow
Black == Rgba8(0, 0, 0, 255)

\* str::parse::<u8>: [ok, value]
ParseU8Digits(ds) ==
    IF ds # <<>> /\ IsDigits(ds) /\ DigitsValue(ds) <= 255
    THEN [ok |-> TRUE, value |-> DigitsValue(ds)]
    ELSE [ok |-> FALSE, value |-> 0]

ParseU8(s) == ParseU8Digits(IF s # <<>> /\ s[1] = "+" THEN Tail(s) ELSE s)

\* v.clamp(0, 100)
Clamp100(byte) ==
    IF byte.ok /\ byte.value > 100 THEN [ok |-> TRUE, value |-> 100] ELSE byte

\* parse_rgb_value
ParseRgbValueOf(s, stripped) ==
    IF stripped.ok THEN Clamp100(ParseU8(stripped.rest)) ELSE ParseU8(s)

ParseRgbValue(s) == ParseRgbValueOf(s, StripSuffix(s, <<"%">>))

RECURSIVE Pow10(_)
Pow10(n) == IF n <= 0 THEN 1 ELSE 10 * Pow10(n - 1)

\* (v.clamp(0.0, 1.0) * 255.0) as u8 of the f64 v
AlphaByte(v) ==
    CASE v.special = "n" -> 0
      [] v.neg -> 0
      [] v.special = "i" -> 255
      [] v.scale <= 0 -> IF v.mant = 0 THEN 0 ELSE 255
      [] v.mant >= Pow10(v.scale) -> 255
      [] OTHER -> (v.mant * 255) \div Pow10(v.scale)

\* parse_rgb_alpha
ParseRgbAlphaOf(float) ==
    IF float.ok THEN [ok |-> TRUE, value |-> AlphaByte(float)]
    ELSE [ok |-> FALSE, value |-> 0]

ParseRgbAlpha(s) == ParseRgbAlphaOf(ParseF64(s))

\* the parts of s.split(',').map(str::trim)
TrimmedParts(s) == [i \in 1..Len(Split(s, ",")) |-> Trim(Split(s, ",")[i])]

\* parse_rgb of the parts
ParseRgbOf(parts) ==
    IF /\ Len(parts) = 3
       /\ \A i \in 1..3 : ParseRgbValue(parts[i]).ok
    THEN Rgba8(ParseRgbValue(parts[1]).value, ParseRgbValue(parts[2]).value,
               ParseRgbValue(parts[3]).value, 255)
    ELSE ValueErr

ParseRgb(s) == ParseRgbOf(TrimmedParts(s))

\* parse_rgba of the parts
ParseRgbaOf(parts) ==
    IF /\ Len(parts) = 4
       /\ \A i \in 1..3 : ParseRgbValue(parts[i]).ok
       /\ ParseRgbAlpha(parts[4]).ok
    THEN Rgba8(ParseRgbValue(parts[1]).value, ParseRgbValue(parts[2]).value,
               ParseRgbValue(parts[3]).value, ParseRgbAlpha(parts[4]).value)
    ELSE ValueErr

ParseRgba(s) == ParseRgbaOf(TrimmedParts(s))

\* the value of a hexadecimal digit
HexDigits == Numeric \cup {"a", "b", "c", "d", "e", "f"}

HexVal(c) ==
    CASE c \in Numeric -> DigitVal(c)
      [] c = "a" -> 10
      [] c = "b" -> 11
      [] c = "c" -> 12
      [] c = "d" -> 13
      [] c = "e" -> 14
      [] c = "f" -> 15

\* Color::parse of '#' and the hexadecimal digits h: #rgb and #rrggbb
HexColor(h) ==
    IF \A i \in 1..Len(h) : h[i] \in HexDigits
    THEN CASE Len(h) = 3 ->
                Rgba8(17 * HexVal(h[1]), 17 * HexVal(h[2]), 17 * HexVal(h[3]), 255)
           [] Len(h) = 6 ->
                Rgba8(16 * HexVal(h[1]) + HexVal(h[2]), 16 * HexVal(h[3]) + HexVal(h[4]),
                      16 * HexVal(h[5]) + HexVal(h[6]), 255)
           [] OTHER -> ValueErr
    ELSE ValueErr

\* Color::parse: a hexadecimal colour or a colour name
ColorParse(s) ==
    CASE s # <<>> /\ s[1] = "#" -> HexColor(Tail(s))
      [] s = <<"r", "e", "d">> -> Rgba8(255, 0, 0, 255)
      [] s = <<"b", "l", "a", "c", "k">> -> Rgba8(0, 0, 0, 255)
      [] OTHER -> ValueErr

\* parse_color, given what BRACKETS_REGEX.captures(s) returns
ParseColorOf(s, captures) ==
    CASE captures.ok /\ StartsWith(s, <<"r", "g", "b", "a">>) -> ParseRgba(captures.group)
      [] captures.ok /\ StartsWith(s, <<"r", "g", "b">>) -> ParseRgb(captures.group)
      [] captures.ok /\ (StartsWith(s, <<"h", "s", "l">>) \/ StartsWith(s, <<"h", "w", "b">>)) -> ValueErr
      [] OTHER -> ColorParse(s)

ParseColor(s) == ParseColorOf(s, BracketsCaptures(s))

\* struct BoxShadow; BoxShadow::default() has zero lengths and is black
BoxShadow(h_offset, v_offset, blur_radius, spread, color) ==
    [ok |-> TRUE, h_offset |-> h_offset, v_offset |-> v_offset,
     blur_radius |-> blur_radius, spread |-> spread, color |-> color]

BoxShadowDefault == BoxShadow(ZeroPx, ZeroPx, ZeroPx, ZeroPx, Black)

\* parse_box_shadow_2
ParseBoxShadow2(a, b) ==
    IF ParsePxPct(a).ok /\ ParsePxPct(b).ok
    THEN BoxShadow(ParsePxPct(a), ParsePxPct(b), ZeroPx, ZeroPx, Black)
    ELSE ValueErr

\* parse_box_shadow_3 without the colour-first form
ParseBoxShadow3OffsetsFirst(a, b, c) ==
    CASE ParsePx(a).ok /\ ParsePx(b).ok /\ ParseColor(c).ok ->
           BoxShadow(ParsePx(a), ParsePx(b), ZeroPx, ZeroPx, ParseColor(c))
      [] ParsePx(a).ok /\ ParsePx(b).ok /\ ParsePx(c).ok ->
           BoxShadow(ParsePx(a), ParsePx(b), ParsePx(c), ZeroPx, Black)
      [] OTHER -> ValueErr

\* parse_box_shadow_3
ParseBoxShadow3(a, b, c) ==
    CASE ParsePx(a).ok /\ ParsePx(b).ok /\ ParseColor(c).ok ->
           BoxShadow(ParsePx(a), ParsePx(b), ZeroPx, ZeroPx, ParseColor(c))
      [] ParseColor(a).ok /\ ParsePx(b).ok /\ ParsePx(c).ok ->
           BoxShadow(ParsePx(b), ParsePx(c), ZeroPx, ZeroPx, ParseColor(a))
      [] ParsePx(a).ok /\ ParsePx(b).ok /\ ParsePx(c).ok ->
           BoxShadow(ParsePx(a), ParsePx(b), ParsePx(c), ZeroPx, Black)
      [] OTHER -> ValueErr

\* parse_box_shadow_4
ParseBoxShadow4(a, b, c, d) ==
    CASE ParsePx(a).ok /\ ParsePx(b).ok /\ ParsePx(c).ok /\ ParseColor(d).ok ->
           BoxShadow(ParsePx(a), ParsePx(b), ParsePx(c), ZeroPx, ParseColor(d))
      [] ParseColor(a).ok /\ ParsePx(b).ok /\ ParsePx(c).ok /\ ParsePx(d).ok ->
           BoxShadow(ParsePx(b), ParsePx(c), ParsePx(d), ZeroPx, ParseColor(a))
      [] ParsePx(a).ok /\ ParsePx(b).ok /\ ParsePx(c).ok /\ ParsePx(d).ok ->
           BoxShadow(ParsePx(a), ParsePx(b), ParsePx(c), ParsePx(d), Black)
      [] OTHER -> ValueErr

\* parse_box_shadow_5
ParseBoxShadow5(a, b, c, d, e) ==
    CASE /\ ParsePx(a).ok /\ ParsePx(b).ok /\ ParsePx(c).ok /\ ParsePx(d).ok
         /\ ParseColor(e).ok ->
           BoxShadow(ParsePx(a), ParsePx(b), ParsePx(c), ParsePx(d), ParseColor(e))
      [] /\ ParseColor(a).ok /\ ParsePx(b).ok /\ ParsePx(c).ok /\ ParsePx(d).ok
         /\ ParsePx(e).ok ->
           BoxShadow(ParsePx(b), ParsePx(c), ParsePx(d), ParsePx(e), ParseColor(a))
      [] OTHER -> ValueErr

\* parse_box_shadow of the parts of s.split_whitespace()
ParseBoxShadowOf(parts) ==
    CASE parts = <<<<"n", "o", "n", "e">>>> -> BoxShadowDefault
      [] Len(parts) = 2 -> ParseBoxShadow2(parts[1], parts[2])
      [] Len(parts) = 3 -> ParseBoxShadow3(parts[1], parts[2], parts[3])
      [] Len(parts) = 4 -> ParseBoxShadow4(parts[1], parts[2], parts[3], parts[4])
      [] Len(parts) = 5 ->
           ParseBoxShadow5(parts[1], parts[2], parts[3], parts[4], parts[5])
      [] OTHER -> ValueErr

ParseBoxShadow(s) == ParseBoxShadowOf(SplitWhitespace(s))

\* ------------------------------------------------------------------------
\* Style::from(StyleBlock) (fiber/src/theme/parser.rs, fiber-macro)
\* ------------------------------------------------------------------------

\* StyleProps::try_from as far as the box shadow goes: the value of a
\* "box-shadow" property parsed; any other key leaves the box shadow alone
StylePropsTryFrom(p) ==
    IF p.key = <<"b", "o", "x", "-", "s", "h", "a", "d", "o", "w">> THEN ParseBoxShadow(p.value) ELSE ValueErr

\* the fold of From<StyleBlock> for Style: a property that does not convert
\* leaves the style as it is
RECURSIVE ApplyProps(_, _)
ApplyProps(style, props) ==
    IF props = <<>> THEN style
    ELSE ApplyProps(IF StylePropsTryFrom(props[1]).ok
                    THEN StylePropsTryFrom(props[1]) ELSE style,
                    Tail(props))

\* impl From<StyleBlock> for Style: the box shadow of the style, not ok when
\* the style has none
StyleFromBlock(block) == ApplyProps(ValueErr, block.props)

\* ------------------------------------------------------------------------
\* Style sources
\* ------------------------------------------------------------------------

MaxFragments == 3
MaxSelectors == 3

\* the lists of at most n elements of S
ListsUpTo(S, n) == UNION {[1..k -> S] : k \in 0..n}

\* the texts joined with sep between them
RECURSIVE JoinWith(_, _)
JoinWith(parts, sep) ==
    IF parts = <<>> THEN <<>>
    ELSE IF Len(parts) = 1 THEN parts[1]
    ELSE parts[1] \o sep \o JoinWith(Tail(parts), sep)

\* a chunk: the selector text and the body in braces
Rule(selector_text, body) == selector_text \o <<"{">> \o body \o <<"}">>

\* .C:P { k: v; }
PseudoNames == {<<"a", "c", "t", "i", "v", "e">>, <<"f", "o", "c", "u", "s">>, <<"h", "o", "v", "e", "r">>, <<"d", "i", "s", "a", "b", "l", "e", "d">>}
ClassNames == {<<"b", "t", "n">>, <<"a">>}

PseudoRule(class, pseudo) == Rule(<<".">> \o class \o <<":">> \o pseudo \o <<" ">>, <<" ", "c", "o", "l", "o", "r", ":", " ", "r", "e", "d", ";", " ">>)

PseudoSources == {PseudoRule(c, p) : c \in ClassNames, p \in PseudoNames}

\* a root block with one entry and a block that uses it
RootEntries == {<<" ", "-", "-", "g", ":", " ", "1", "0", "p", "x", ";", " ">>, <<" ", "-", "-", "g", ":", " ", "1", "0", "p", "x", " ">>, <<" ", "-", "-", "g", " ", ":", " ", "1", "0", "p", "x", " ", ";", " ">>, <<" ", "-", "-", "g", ":", " ", "1", "0", "p", "x", ";", " ", "-", "-", "k", ":", " ", "r", "e", "d", ";", " ">>}
RootUses == {<<" ", "g", "a", "p", ":", " ", "v", "a", "r", "(", "-", "-", "g", ")", ";", " ">>, <<" ", "g", "a", "p", ":", " ", "v", "a", "r", "(", "-", "-", "g", ")", " ", "r", "e", "s", "t", ";", " ">>,
             <<" ", "g", "a", "p", ":", " ", "v", "a", "r", "(", "-", "-", "g", ")", ";", " ", "c", "o", "l", "o", "r", ":", " ", "v", "a", "r", "(", "-", "-", "k", ")", ";", " ">>, <<" ", "g", "a", "p", ":", " ", "2", "p", "x", ";", " ">>}

RootDoc(entries, uses) == Rule(<<":", "r", "o", "o", "t", " ">>, entries) \o <<" ">> \o Rule(<<".", "a", " ">>, uses)

RootSources ==
    {RootDoc(e, u) : e \in RootEntries, u \in RootUses}
        \cup {Rule(<<".", "a", " ">>, <<" ", "g", "a", "p", ":", " ", "v", "a", "r", "(", "-", "-", "g", ")", ";", " ">>) \o <<" ">> \o Rule(<<":", "r", "o", "o", "t", " ">>, <<" ", "-", "-", "g", ":", " ", "1", "0", "p", "x", ";", " ">>),
              Rule(<<":", "r", "o", "o", "t", " ">>, <<>>) \o <<" ">> \o Rule(<<".", "a", " ">>, <<" ", "g", "a", "p", ":", " ", "v", "a", "r", "(", "-", "-", "g", ")", ";", " ">>)}

\* a block of fragments, some of them without ':'
FragmentKinds ==
    {[text |-> <<"c", "o", "l", "o", "r", ":", " ", "r", "e", "d">>, good |-> TRUE, key |-> <<"c", "o", "l", "o", "r">>, value |-> <<"r", "e", "d">>],
     [text |-> <<"g", "a", "p", " ", ":", " ", "2", "p", "x">>, good |-> TRUE, key |-> <<"g", "a", "p">>, value |-> <<"2", "p", "x">>],
     [text |-> <<"o", "o", "p", "s">>, good |-> FALSE, key |-> <<>>, value |-> <<>>]}

FragmentLists == ListsUpTo(FragmentKinds, MaxFragments)

FragmentBody(list) ==
    JoinWith([i \in 1..Len(list) |-> <<" ">> \o list[i].text \o <<";">>], <<>>) \o <<" ">>

FragmentDoc(list) == Rule(<<".", "a", ",", " ", ".", "b", ":", "h", "o", "v", "e", "r", " ">>, FragmentBody(list))

FragmentSources == {FragmentDoc(l) : l \in FragmentLists}

\* chunks without a selector
NoSelectorTexts == {<<>>, <<" ">>, <<".", "a", ":", "f", "o", "o", " ">>, <<",", " ">>, <<":", "h", "o", "v", "e", "r", " ">>, <<".", "a", ":", " ">>}

NoSelectorSources == {Rule(t, <<" ", "c", "o", "l", "o", "r", ":", " ", "r", "e", "d", ";", " ">>) : t \in NoSelectorTexts}

\* chunks that list selectors in any order
SelectorTexts == {<<".", "a">>, <<".", "b">>, <<".", "a", ":", "h", "o", "v", "e", "r">>, <<".", "b", ":", "a", "c", "t", "i", "v", "e">>, <<".", "a", ":", "d", "i", "s", "a", "b", "l", "e", "d">>}

SelectorLists ==
    {l \in ListsUpTo(SelectorTexts, MaxSelectors) :
        /\ l # <<>>
        /\ \A i, j \in 1..Len(l) : i # j => l[i] # l[j]}

SelectorDoc(list) == Rule(JoinWith(list, <<",", " ">>) \o <<" ">>, <<" ", "c", "o", "l", "o", "r", ":", " ", "r", "e", "d", ";", " ">>)

SelectorSources == {SelectorDoc(l) : l \in SelectorLists}

\* box shadows
PixelLiterals == {<<"2", "p", "x">>, <<"-", "1", "p", "x">>, <<"0", ".", "5", "p", "x">>}
ColorLiterals == {<<"#", "0", "0", "0">>, <<"#", "f", "f", "0", "0", "0", "0">>, <<"r", "e", "d">>, <<"r", "g", "b", "(", "0", ",", "0", ",", "0", ")">>, <<"r", "g", "b", "a", "(", "0", ",", "0", ",", "0", ",", "0", ".", "5", ")">>}

ShadowDoc(value) == Rule(<<".", "a", " ">>, <<" ", "b", "o", "x", "-", "s", "h", "a", "d", "o", "w", ":", " ">> \o value \o <<";", " ">>)

ShadowValues ==
    {JoinWith(<<h, v, c>>, <<" ">>) : h \in PixelLiterals, v \in PixelLiterals, c \in ColorLiterals}
        \cup {JoinWith(<<c, h, v>>, <<" ">>) : h \in PixelLiterals, v \in PixelLiterals, c \in ColorLiterals}
        \cup {<<"n", "o", "n", "e">>, <<"2", "p", "x", " ", "5", "0", "%">>, <<"2", "p", "x", " ", "2", "p", "x", " ", "1", "p", "x">>, <<"2", "p", "x", " ", "2", "p", "x", " ", "1", "p", "x", " ", "r", "e", "d">>, <<"r", "e", "d", " ", "2", "p", "x", " ", "2", "p", "x", " ", "1", "p", "x">>,
              <<"2", "p", "x", " ", "2", "p", "x", " ", "1", "p", "x", " ", "1", "p", "x">>, <<"2", "p", "x", " ", "2", "p", "x", " ", "1", "p", "x", " ", "1", "p", "x", " ", "r", "e", "d">>, <<"r", "e", "d", " ", "2", "p", "x", " ", "2", "p", "x", " ", "1", "p", "x", " ", "1", "p", "x">>,
              <<"2", "p", "x", " ", "2", "p", "x", " ", "r", "g", "b", "(", "0", ",", " ", "0", ",", " ", "0", ")">>, <<"2", "p", "x">>, <<"2", "p", "x", " ", "2", "p", "x", " ", "h", "s", "l", "(", "0", ",", "0", ",", "0", ")">>, <<"1", " ", "2", " ", "3", " ", "4", " ", "5", " ", "6">>}

ShadowSources == {ShadowDoc(v) : v \in ShadowValues}

\* comments
CommentTexts == {<<" ", "x", " ">>, <<"x">>, <<>>, <<" ", "a", " ", "*", " ", "b", " ">>, <<"*">>, <<" ", ".", "b", " ", "{", " ", "g", "a", "p", ":", " ", "2", "p", "x", ";", " ", "}", " ">>}

Comment(text) == <<"/", "*">> \o text \o <<"*", "/">>

CommentPlaces ==
    {[pre |-> <<>>, post |-> <<".", "a", " ", "{", " ", "c", "o", "l", "o", "r", ":", " ", "r", "e", "d", ";", " ", "}">>],
     [pre |-> <<".", "a", " ">>, post |-> <<"{", " ", "c", "o", "l", "o", "r", ":", " ", "r", "e", "d", ";", " ", "}">>],
     [pre |-> <<".", "a", " ", "{", " ">>, post |-> <<"c", "o", "l", "o", "r", ":", " ", "r", "e", "d", ";", " ", "}">>],
     [pre |-> <<".", "a", " ", "{", " ", "c", "o", "l", "o", "r", ":", " ">>, post |-> <<"r", "e", "d", ";", " ", "}">>],
     [pre |-> <<".", "a", " ", "{", " ", "c", "o", "l", "o", "r", ":", " ", "r", "e", "d", ";", " ", "}">>, post |-> <<>>]}

CommentDoc(place, text) == place.pre \o Comment(text) \o place.post

CommentSources == {CommentDoc(pl, t) : pl \in CommentPlaces, t \in CommentTexts}

\* how many chunks a document of chunks has at most
MaxChunks == 3

\* selector texts with a piece that is not a selector next to one that is
InvalidPieceTexts ==
    {<<".", "a", ",", " ", ".", "b", ":", "f", "o", "o", " ">>, <<".", "a", ":", ",", " ", ".", "b", " ">>, <<":", "h", "o", "v", "e", "r", ",", " ", ".", "b", " ">>, <<".", "a", ",", " ", ",", " ", ".", "b", " ">>, <<".", "a", ":", "H", "o", "v", "e", "r", ",", " ", ".", "b", " ">>,
     <<".", "a", ":", "f", "o", "o", " ">>}

InvalidPieceSources == {Rule(t, <<" ", "c", "o", "l", "o", "r", ":", " ", "r", "e", "d", ";", " ">>) : t \in InvalidPieceTexts}

\* fragments with more than one ':'
TwoColonFragments == {<<"a", ":", " ", "b", ":", " ", "c">>, <<"b", "a", "c", "k", "g", "r", "o", "u", "n", "d", ":", " ", "u", "r", "l", "(", "h", "t", "t", "p", ":", "/", "/", "x", ")">>, <<"a", ":", ":", "b">>}

TwoColonDoc(f) == Rule(<<".", "a", " ">>, <<" ", "c", "o", "l", "o", "r", ":", " ", "r", "e", "d", ";", " ">> \o f \o <<";", " ">>)

TwoColonSources == {TwoColonDoc(f) : f \in TwoColonFragments}

\* chunks: two well-formed ones with the StyleBlock written in them, one
\* without '{', one with an empty selector text, a root block and a root
\* block with empty braces
ChunkA ==
    [text |-> <<".", "a", " ", "{", " ", "c", "o", "l", "o", "r", ":", " ", "r", "e", "d", ";", " ", "}">>, good |-> TRUE,
     block |-> StyleBlock(<<ClassSelector(<<".", "a">>, "None")>>,
                          <<StyleProperty(<<"c", "o", "l", "o", "r">>, <<"r", "e", "d">>)>>, <<>>)]
ChunkB ==
    [text |-> <<" ", ".", "b", ":", "h", "o", "v", "e", "r", " ", "{", " ", "g", "a", "p", ":", " ", "2", "p", "x", ";", " ", "}">>, good |-> TRUE,
     block |-> StyleBlock(<<ClassSelector(<<".", "b">>, "Hover")>>,
                          <<StyleProperty(<<"g", "a", "p">>, <<"2", "p", "x">>)>>, <<>>)]
ChunkNoBrace ==
    [text |-> <<" ", ".", "c", " ", "c", "o", "l", "o", "r", ":", " ", "r", "e", "d", ";", " ", "}">>, good |-> FALSE, block |-> StyleBlock(<<>>, <<>>, <<>>)]
ChunkNoSelector ==
    [text |-> <<"{", " ", "c", "o", "l", "o", "r", ":", " ", "r", "e", "d", ";", " ", "}">>, good |-> FALSE, block |-> StyleBlock(<<>>, <<>>, <<>>)]
ChunkRoot ==
    [text |-> <<" ", ":", "r", "o", "o", "t", " ", "{", " ", "-", "-", "g", ":", " ", "1", "0", "p", "x", ";", " ", "}">>, good |-> FALSE, block |-> StyleBlock(<<>>, <<>>, <<>>)]
ChunkRootEmpty ==
    [text |-> <<":", "r", "o", "o", "t", " ", "{", "}">>, good |-> FALSE, block |-> StyleBlock(<<>>, <<>>, <<>>)]

ChunkKinds ==
    {ChunkA, ChunkB, ChunkNoBrace, ChunkNoSelector, ChunkRoot, ChunkRootEmpty}

ChunkLists == ListsUpTo(ChunkKinds, MaxChunks)

\* the chunks one after the other, without anything between them
ChunkDoc(list) == JoinWith([i \in 1..Len(list) |-> list[i].text], <<>>)

ChunkSources == {ChunkDoc(l) : l \in ChunkLists}

StyleSources ==
    PseudoSources \cup RootSources \cup FragmentSources \cup NoSelectorSources
        \cup SelectorSources \cup ShadowSources \cup CommentSources
        \cup InvalidPieceSources \cup TwoColonSources \cup ChunkSources

\* ------------------------------------------------------------------------
\* StyleParser::blocks and Theme::reload, step by step
\* ------------------------------------------------------------------------

RootText == <<":", "r", "o", "o", "t">>

\* the chunks of buf.split_inclusive('}')
Chunks(b) == SplitInclusive(b, "}")

\* what BRACES_REGEX.captures returns for the first chunk with ":root"
RootCaptures(b) == BracesCaptures(RootChunk(Chunks(b)))

\* a root block was found and its braces hold something
HasRoot(b) == RootChunk(Chunks(b)) # <<>> /\ RootCaptures(b).ok

\* COMMENT_REGEX.replace_all(buf, "")
StripComments ==
    /\ spc = "idle"
    /\ buf' = ReplaceComments(css)
    /\ spc' = "stripped"
    /\ UNCHANGED <<fml_vars, css, blocks, shadows>>

\* the root block's entries replace the var(key) of the whole buffer
SubstituteRoot ==
    /\ spc = "stripped"
    /\ HasRoot(buf)
    /\ buf' = Substitute(buf, RootVars(SplitInclusive(RootCaptures(buf).group, ";")))
    /\ spc' = "substituted"
    /\ UNCHANGED <<fml_vars, css, blocks, shadows>>

\* "Invalid root block": the buffer stays as it is
NoRoot ==
    /\ spc = "stripped"
    /\ ~HasRoot(buf)
    /\ spc' = "substituted"
    /\ UNCHANGED <<fml_vars, css, buf, blocks, shadows>>

\* the chunks without ":root" parsed, the Ok ones collected
SplitBlocks ==
    /\ spc = "substituted"
    /\ blocks' = BlocksOf(SelectSeq(Chunks(buf), LAMBDA c : ~ContainsStr(c, RootText)))
    /\ spc' = "parsed"
    /\ UNCHANGED <<fml_vars, css, buf, shadows>>

\* Theme::reload: every block converted into a Style
ConvertBlocks ==
    /\ spc = "parsed"
    /\ shadows' = [i \in 1..Len(blocks) |-> StyleFromBlock(blocks[i])]
    /\ spc' = "styled"
    /\ UNCHANGED <<fml_vars, css, buf, blocks>>

\* a style source before it is parsed; no markup is parsed
InitStyle ==
    /\ InitCalls([p \in Procs |-> <<>>], TRUE)
    /\ css \in StyleSources
    /\ buf = <<>>
    /\ blocks = <<>>
    /\ shadows = <<>>
    /\ spc = "idle"

NextStyle ==
    \/ StripComments
    \/ SubstituteRoot
    \/ NoRoot
    \/ SplitBlocks
    \/ ConvertBlocks

SpecStyle == InitStyle /\ [][NextStyle]_vars

\* ------------------------------------------------------------------------
\* Properties of the style parser
\* ------------------------------------------------------------------------

\* StyleParser::blocks has returned
BlocksReturned == spc \in {"parsed", "styled"}

\* C14: a chunk .C:P { color: red; }, P one of active, focus, hover and
\* disabled, gives exactly one StyleBlock, whose selectors are the one
\* selector of class C, without the leading dot, and pseudo-selector P, and
\* whose props are the one property of key "color" and value "red"
C14_PseudoRuleBlock ==
    \A c \in ClassNames, p \in PseudoNames :
        css = PseudoRule(c, p) /\ BlocksReturned =>
            /\ Len(blocks) = 1
            /\ blocks[1].selectors = <<ClassSelector(c, SelectorFromStr(p).selector)>>
            /\ blocks[1].props = <<StyleProperty(<<"c", "o", "l", "o", "r">>, <<"r", "e", "d">>)>>

\* C15: with the root entry --g: 10px the property gap: var(--g); gets the
\* value "10px" and the property gap: var(--g) rest; gets the one value
\* "10px rest", whether the entry ends with ';' or not
C15_RootSubstitution ==
    \A e \in RootEntries :
        BlocksReturned =>
            /\ css = RootDoc(e, <<" ", "g", "a", "p", ":", " ", "v", "a", "r", "(", "-", "-", "g", ")", ";", " ">>) =>
                   /\ Len(blocks) = 1
                   /\ blocks[1].props = <<StyleProperty(<<"g", "a", "p">>, <<"1", "0", "p", "x">>)>>
            /\ css = RootDoc(e, <<" ", "g", "a", "p", ":", " ", "v", "a", "r", "(", "-", "-", "g", ")", " ", "r", "e", "s", "t", ";", " ">>) =>
                   /\ Len(blocks) = 1
                   /\ blocks[1].props = <<StyleProperty(<<"g", "a", "p">>, <<"1", "0", "p", "x", " ", "r", "e", "s", "t">>)>>

\* the properties written in the well-formed fragments of the list, in order
WrittenProps(list) ==
    [i \in 1..Len(SelectSeq(list, LAMBDA f : f.good)) |->
        StyleProperty(SelectSeq(list, LAMBDA f : f.good)[i].key,
                      SelectSeq(list, LAMBDA f : f.good)[i].value)]

\* C16: a block of n fragments of which m have no ':' gives one StyleBlock
\* that keeps both its selectors, has the n-m well-formed properties in
\* source order and has m errors
C16_PartialFailure ==
    \A list \in FragmentLists :
        css = FragmentDoc(list) /\ BlocksReturned =>
            /\ Len(blocks) = 1
            /\ blocks[1].selectors =
                   <<ClassSelector(<<".", "a">>, "None"), ClassSelector(<<".", "b">>, "Hover")>>
            /\ blocks[1].props = WrittenProps(list)
            /\ Len(blocks[1].errors) = Len(SelectSeq(list, LAMBDA f : ~f.good))

\* a block with a malformed fragment between two well-formed ones
C16_Witness ==
    /\ BlocksReturned
    /\ \E list \in FragmentLists :
           /\ Len(list) = 3 /\ list[1].good /\ ~list[2].good /\ list[3].good
           /\ css = FragmentDoc(list)
    /\ Len(blocks) = 1
    /\ Len(blocks[1].props) = 2
    /\ Len(blocks[1].errors) = 1

\* C17: every StyleBlock that StyleParser::blocks returns has a selector
C17_SelectorsNonEmpty ==
    BlocksReturned => \A i \in 1..Len(blocks) : blocks[i].selectors # <<>>

\* C18: the selectors of every StyleBlock are in ascending order of class
\* and pseudo-selector, and those of a chunk that lists distinct selectors
\* are these selectors, each once, whatever the order they are written in
C18_SelectorsSorted ==
    BlocksReturned =>
        /\ \A i \in 1..Len(blocks) :
               \A j, k \in 1..Len(blocks[i].selectors) :
                   j < k => ~ClassSelectorLess(blocks[i].selectors[k], blocks[i].selectors[j])
        /\ \A list \in SelectorLists :
               css = SelectorDoc(list) =>
                   /\ Len(blocks) = 1
                   /\ Len(blocks[1].selectors) = Len(list)
                   /\ {blocks[1].selectors[j] : j \in 1..Len(list)}
                          = {ClassSelectorFromStr(list[j]).value : j \in 1..Len(list)}
                   /\ \A j, k \in 1..Len(list) :
                          j < k => ClassSelectorLess(blocks[1].selectors[j],
                                                     blocks[1].selectors[k])

\* the chunk .b, .a:hover, .a gives the selectors .a, .a:hover, .b
C18_Witness ==
    /\ BlocksReturned
    /\ css = SelectorDoc(<<<<".", "b">>, <<".", "a", ":", "h", "o", "v", "e", "r">>, <<".", "a">>>>)
    /\ Len(blocks) = 1
    /\ blocks[1].selectors =
           <<ClassSelector(<<".", "a">>, "None"), ClassSelector(<<".", "a">>, "Hover"),
             ClassSelector(<<".", "b">>, "None")>>

\* C19: for pixel literals h and v and a colour literal c of one token,
\* box-shadow: h v c and box-shadow: c h v both give the box shadow of
\* offsets h and v, colour c and the default blur and spread
C19_ColourPosition ==
    \A h \in PixelLiterals, v \in PixelLiterals, c \in ColorLiterals :
        /\ spc = "styled"
        /\ css \in {ShadowDoc(JoinWith(<<h, v, c>>, <<" ">>)),
                    ShadowDoc(JoinWith(<<c, h, v>>, <<" ">>))}
        => /\ ParsePx(h).ok /\ ParsePx(v).ok /\ ParseColor(c).ok
           /\ shadows = <<BoxShadow(ParsePx(h), ParsePx(v), ZeroPx, ZeroPx, ParseColor(c))>>

\* box-shadow: #ff0000 -1px 2px has been converted
C19_Witness ==
    /\ spc = "styled"
    /\ css = ShadowDoc(<<"#", "f", "f", "0", "0", "0", "0", " ", "-", "1", "p", "x", " ", "2", "p", "x">>)
    /\ Len(shadows) = 1
    /\ shadows[1].ok
    /\ shadows[1].h_offset = ParsePx(<<"-", "1", "p", "x">>)
    /\ shadows[1].v_offset = ParsePx(<<"2", "p", "x">>)
    /\ shadows[1].color = Rgba8(255, 0, 0, 255)

\* C20: a comment, also an empty one and one whose text has a '*', is
\* removed from the buffer before the root substitution, and the blocks are
\* those of the source without the comment
C20_CommentsStripped ==
    \A place \in CommentPlaces, text \in CommentTexts :
        css = CommentDoc(place, text) =>
            /\ spc = "stripped" => buf = place.pre \o place.post
            /\ BlocksReturned => blocks = BlocksOf(Chunks(place.pre \o place.post))

\* ------------------------------------------------------------------------
\* Properties of the lexer modes and of the attribute values
\* ------------------------------------------------------------------------

\* the tokens that open or close a tag
TagDelimiters(toks) ==
    SelectSeq(toks, LAMBDA t : t.kind \in {"TagStart", "TagClose", "TagEnd", "TagSelfClose"})

\* the last token that opens or closes a tag is a '<' or a '</'
InsideOpenTag(delimiters) ==
    /\ delimiters # <<>>
    /\ delimiters[Len(delimiters)].kind \in {"TagStart", "TagClose"}

\* C21: inside_tag is true exactly between a '<' or '</' and the '>' or '/>'
\* that closes the tag, and the token after a TagSelfClose is not a TagName
\* or an AttributeName
C21_InsideTagMode ==
    /\ inside_tag[1] = InsideOpenTag(TagDelimiters(tokens[1]))
    /\ \A t \in 1..(Len(tokens[1]) - 1) :
           tokens[1][t].kind = "TagSelfClose" =>
               tokens[1][t + 1].kind \notin {"TagName", "AttributeName"}


\* the classification in the order integer, float, ':', string
C23_Reference(text) ==
    IF ParseI64(text).ok THEN AVInteger(ParseI64(text).value)
    ELSE IF ParseF64(text).ok THEN AVFloat(ParseF64(text))
    ELSE IF Contains(text, ":")
         THEN AVVariable(VariableNameFrom(TrimEndMatches(text, {"{", "}"})))
    ELSE AVString(TrimMatches(text, {"\"", " "}))

\* C23: for the text of every AttributeValue token without a line break,
\* AttributeValue::new returns Ok with the value of the order integer, float,
\* ':' (Variable), string (trimmed); testing the ':' first changes nothing
C23_ColonFirstSameResult ==
    \A t \in 1..Len(tokens[1]) :
        (/\ tokens[1][t].kind = "AttributeValue"
         /\ ~Contains(tokens[1][t].text, "\n")) =>
            /\ AttributeValueNew(tokens[1][t].text).ok
            /\ AttributeValueNew(tokens[1][t].text).value
                   = C23_Reference(tokens[1][t].text)

\* C23 witness: <foo value="1:2"/> gave the Variable 2 of unknown kind
C23_Witness ==
    /\ input[1] = SelfClosing(NFoo, QuotedAttr(<<"v", "a", "l", "u", "e">>, <<"1", ":", "2">>))
    /\ Returned(1)
    /\ result[1].ok
    /\ result[1].node.attributes
           = <<Attribute(<<"v", "a", "l", "u", "e">>, AVVariable([name |-> <<"2">>, kind |-> "Unknown"]))>>

\* the VariableType of a type prefix
C24_KindOf(t) ==
    CASE t = <<"s", "t", "r">> -> "String"
      [] t = <<"i", "n", "t">> -> "Integer"
      [] t = <<"d", "e", "c">> -> "Float"
      [] OTHER -> "Unknown"

\* C24: <foo value="{T:n}"/> gives the attribute value Variable with the
\* name n and the kind of T: String for str, Integer for int, Float for dec,
\* Unknown for any other prefix
C24_BracedVariableKind ==
    \A t \in VariableTypes :
        (/\ input[1] = SelfClosing(NFoo, QuotedAttr(<<"v", "a", "l", "u", "e">>, BracedReference(t, <<"n">>)))
         /\ Returned(1)) =>
            /\ result[1].ok
            /\ result[1].node.attributes
                   = <<Attribute(<<"v", "a", "l", "u", "e">>, AVVariable([name |-> <<"n">>, kind |-> C24_KindOf(t)]))>>


\* the spans of the tokens of call p lie in the source, one after the other,
\* before the position of the lexer
SpansInOrder(p) ==
    /\ \A t \in 1..Len(tokens[p]) :
           /\ 0 <= tokens[p][t].start
           /\ tokens[p][t].start < tokens[p][t].end
           /\ tokens[p][t].end <= Len(input[p])
    /\ \A t \in 1..(Len(tokens[p]) - 1) : tokens[p][t].end <= tokens[p][t + 1].start
    /\ tokens[p] # <<>> => tokens[p][Len(tokens[p])].end <= position[p]
    /\ position[p] <= Len(input[p])

\* C28: every token has start < end <= length of the source, the end of a
\* token is at most the start of the next one, and the position of the lexer
\* never decreases
C28_TokenSpans ==
    /\ []SpansInOrder(1)
    /\ [][position'[1] >= position[1]]_vars

\* C28 witness: <input value="5"/> is lexed into six tokens, the quoted value
\* at its span with the quotes
C28_Witness ==
    /\ input[1] = SelfClosing(NInput, QuotedAttr(<<"v", "a", "l", "u", "e">>, <<"5">>))
    /\ pc[1] = "lexed"
    /\ Len(tokens[1]) = 6
    /\ tokens[1][5] = Token("AttributeValue", <<"5">>, 13, 16)
    /\ position[1] = Len(input[1])


\* ------------------------------------------------------------------------
\* Termination of Parser::parse (fml/src/parser.rs)
\* ------------------------------------------------------------------------

\* a step of Parser::parse in which a parse_element call returns its element
ElementReturned ==
    /\ pc[1] = "parse"
    /\ ELEMENT_ID' # ELEMENT_ID

\* a step of Parser::parse in which a parse_element call goes on to its
\* children
ElementOpened ==
    /\ pc[1] = "parse"
    /\ Len(stack'[1]) > Len(stack[1])

\* C29: a step of Parser::parse never moves the cursor back or past the last
\* token; a parse_element call that opens or returns an element has consumed
\* at least three tokens, and on its return the cursor is just past a TagEnd
\* or TagSelfClose; every step that leaves the parser running (an iteration
\* of the children loop or of the loop of parse) advances the cursor; a
\* failure of parse_element ends parse, which then changes nothing any more
C29_ParseTerminates ==
    [][/\ cursor'[1] >= cursor[1]
       /\ cursor'[1] <= Len(tokens'[1])
       /\ ElementReturned =>
              /\ cursor'[1] >= cursor[1] + 3
              /\ KindAt(tokens[1], cursor'[1] - 1) \in {"TagEnd", "TagSelfClose"}
       /\ ElementOpened =>
              /\ cursor'[1] >= cursor[1] + 3
              /\ KindAt(tokens[1], cursor'[1] - 1) = "TagEnd"
       /\ (pc[1] = "parse" /\ pc'[1] = "parse") => cursor'[1] > cursor[1]
       /\ (pc[1] = "parse" /\ perr'[1] # perr[1]) =>
              /\ pc'[1] = "parsed"
              /\ nodes'[1] = nodes[1]
       /\ pc[1] = "parsed" =>
              /\ cursor'[1] = cursor[1]
              /\ nodes'[1] = nodes[1]]_vars

\* C29 witness: <box>x<box/></box> is parsed to the end of its eight tokens
\* and the loop of parse has stopped on the failure that follows
C29_Witness ==
    /\ input[1] = OpenTag(NBox, <<>>) \o <<"x">> \o SelfClosing(NBox, <<>>) \o CloseTag(NBox)
    /\ pc[1] = "parsed"
    /\ Len(tokens[1]) = 10
    /\ cursor[1] = 10
    /\ Len(nodes[1]) = 1
    /\ Len(nodes[1][1].children) = 2
    /\ perr[1] = Error("Expected TagStart")


\* ------------------------------------------------------------------------
\* Parser (fml/src/parser2.rs), run on the tokens of Lexer::lex
\* ------------------------------------------------------------------------

\* how often the model lets a loop of parser2.rs push the Text token it
\* stays on
MaxRepeat == 3

\* Option<&str>: the value of an Attribute
NoValue == [some |-> FALSE, text |-> <<>>]
SomeValue(text) == [some |-> TRUE, text |-> text]

\* struct Attribute, struct Element and enum Node of parser2.rs
Parser2Attribute(name, value) == [name |-> name, value |-> value]
Parser2Element(name, attributes, children) ==
    [type |-> "Element", name |-> name, attributes |-> attributes,
     children |-> children]
Parser2Text(text) == [type |-> "Text", text |-> text]

\* ParseError::UnexpectedToken { expected, found, .. } (the position is the
\* cursor) and ParseError::UnexpectedEOF
UnexpectedToken(expected, found) ==
    [msg |-> "UnexpectedToken", expected |-> <<expected>>, found |-> <<found>>]
UnexpectedEOF == [msg |-> "UnexpectedEOF", expected |-> <<>>, found |-> <<>>]

\* the Err of expect_token(expected) at position pos
ExpectTokenErr(toks, pos, expected) ==
    IF KindAt(toks, pos) = "None" THEN UnexpectedEOF
    ELSE UnexpectedToken(expected, KindAt(toks, pos))

\* parse_attributes from position pos: after the name at pos and the
\* EqualSign at pos + 1, next_token is called twice, so the token looked at
\* as the value is the one at pos + 3, where the position stays
RECURSIVE Parser2ParseAttributes(_, _, _)
Parser2ParseAttributes(toks, pos, attributes) ==
    IF KindAt(toks, pos) # "AttributeName"
    THEN Part("ok", pos, <<>>, attributes, NoError)
    ELSE IF KindAt(toks, pos + 1) # "Equal"
    THEN Parser2ParseAttributes(toks, pos + 1,
             Append(attributes, Parser2Attribute(TokenAt(toks, pos).text, NoValue)))
    ELSE IF KindAt(toks, pos + 3) # "AttributeValue"
    THEN Part("err", pos + 3, <<>>, attributes,
              UnexpectedToken("AttributeValue", KindAt(toks, pos + 3)))
    ELSE Parser2ParseAttributes(toks, pos + 3,
             Append(attributes, Parser2Attribute(TokenAt(toks, pos).text,
                                                 SomeValue(TokenAt(toks, pos + 3).text))))

\* parse_element after parse_attributes returned a
Parser2HeadEnd(toks, name, a) ==
    IF a.status # "ok"
    THEN Part(a.status, a.cursor, name, a.attributes, a.err)
    ELSE IF KindAt(toks, a.cursor) = "TagSelfClose"
    THEN Part("selfclose", a.cursor + 1, name, a.attributes, NoError)
    ELSE IF KindAt(toks, a.cursor) # "TagEnd"
    THEN Part("err", a.cursor, name, a.attributes, ExpectTokenErr(toks, a.cursor, "TagEnd"))
    ELSE Part("open", a.cursor + 1, name, a.attributes, NoError)

\* parse_element up to its children
Parser2ElementHead(toks, pos) ==
    IF KindAt(toks, pos) # "TagStart"
    THEN Part("err", pos, <<>>, <<>>, ExpectTokenErr(toks, pos, "TagStart"))
    ELSE IF KindAt(toks, pos + 1) # "TagName"
    THEN Part("err", pos + 1, <<>>, <<>>, UnexpectedToken("TagName", KindAt(toks, pos + 1)))
    ELSE Parser2HeadEnd(toks, TokenAt(toks, pos + 1).text,
                        Parser2ParseAttributes(toks, pos + 2, <<>>))

\* parse_element after its children: TagClose, the same TagName, TagEnd
Parser2ElementTail(toks, pos, name) ==
    IF KindAt(toks, pos) # "TagClose"
    THEN Part("err", pos, name, <<>>, ExpectTokenErr(toks, pos, "TagClose"))
    ELSE IF KindAt(toks, pos + 1) # "TagName" \/ TokenAt(toks, pos + 1).text # name
    THEN Part("err", pos + 1, name, <<>>, UnexpectedToken("TagName", KindAt(toks, pos + 1)))
    ELSE IF KindAt(toks, pos + 2) # "TagEnd"
    THEN Part("err", pos + 2, name, <<>>, ExpectTokenErr(toks, pos + 2, "TagEnd"))
    ELSE Part("ok", pos + 3, name, <<>>, NoError)

\* the arm of the match of parse_node at position pos
ParseNodeArm(toks, pos) ==
    CASE KindAt(toks, pos) = "TagStart" -> "element"
      [] KindAt(toks, pos) = "Text" -> "text"
      [] OTHER -> "none"

\* the nodes collected by the loop that is running: the children of the
\* innermost parse_element call, or the nodes of parse
Collected(calls, top) == IF calls = <<>> THEN top ELSE calls[Len(calls)].children

\* how many Text nodes end a list of nodes
RECURSIVE TrailingTexts(_)
TrailingTexts(list) ==
    IF list = <<>> \/ list[Len(list)].type # "Text" THEN 0
    ELSE 1 + TrailingTexts(SubSeq(list, 1, Len(list) - 1))

\* Parser::new(tokens)
Parser2New(p) ==
    /\ pc[p] = "lexed"
    /\ pc' = [pc EXCEPT ![p] = "parse2"]
    /\ cursor' = [cursor EXCEPT ![p] = 0]
    /\ UNCHANGED <<input, position, inside_tag, tokens, stack, nodes, perr, result,
                   var_names, ELEMENT_ID, serialized, css, buf, blocks, shadows, spc>>

\* parse_node is called: by the loop of parse while position < tokens.len(),
\* or by the children loop while the current token is not a TagClose
CallsParseNode(p) ==
    /\ pc[p] = "parse2"
    /\ IF stack[p] = <<>>
       THEN cursor[p] < Len(tokens[p])
       ELSE KindAt(tokens[p], cursor[p]) # "TagClose"

\* parse_node returns Some(Node::Text(text)): the node is pushed and the
\* position is left where it is
Parser2ParseText(p) ==
    /\ CallsParseNode(p)
    /\ ParseNodeArm(tokens[p], cursor[p]) = "text"
    /\ TrailingTexts(Collected(stack[p], nodes[p])) < MaxRepeat
    /\ stack' = [stack EXCEPT ![p] =
                    Push(@, nodes[p], Parser2Text(TokenAt(tokens[p], cursor[p]).text)).stack]
    /\ nodes' = [nodes EXCEPT ![p] =
                    Push(stack[p], @, Parser2Text(TokenAt(tokens[p], cursor[p]).text)).nodes]
    /\ UNCHANGED <<input, pc, position, inside_tag, tokens, cursor, perr, result,
                   var_names, ELEMENT_ID, serialized, css, buf, blocks, shadows, spc>>

\* parse_element reads <name attrs> and goes on to its children
Parser2Open(p, h) ==
    /\ h.status = "open"
    /\ stack' = [stack EXCEPT ![p] = Append(@, Frame(h.name, h.attributes))]
    /\ cursor' = [cursor EXCEPT ![p] = h.cursor]
    /\ UNCHANGED <<input, pc, position, inside_tag, tokens, nodes, perr, result,
                   var_names, ELEMENT_ID, serialized, css, buf, blocks, shadows, spc>>

Parser2ElementOpen(p) ==
    /\ CallsParseNode(p)
    /\ ParseNodeArm(tokens[p], cursor[p]) = "element"
    /\ Parser2Open(p, Parser2ElementHead(tokens[p], cursor[p]))

\* parse_element returns Ok(element): parse_node returns the node, which is
\* pushed where parse_node was called from, and the position is pos
Parser2Return(p, calls, element, pos) ==
    /\ stack' = [stack EXCEPT ![p] = Push(calls, nodes[p], element).stack]
    /\ nodes' = [nodes EXCEPT ![p] = Push(calls, nodes[p], element).nodes]
    /\ cursor' = [cursor EXCEPT ![p] = pos]
    /\ UNCHANGED <<input, pc, position, inside_tag, tokens, perr, result,
                   var_names, ELEMENT_ID, serialized, css, buf, blocks, shadows, spc>>

\* a ParseError goes up through every call in progress: parse returns Err
Parser2Fail(p, err, pos) ==
    /\ perr' = [perr EXCEPT ![p] = err]
    /\ cursor' = [cursor EXCEPT ![p] = pos]
    /\ stack' = [stack EXCEPT ![p] = <<>>]
    /\ pc' = [pc EXCEPT ![p] = "parsed2"]
    /\ UNCHANGED <<input, position, inside_tag, tokens, nodes, result, var_names,
                   ELEMENT_ID, serialized, css, buf, blocks, shadows, spc>>

\* parse_element reads <name attrs/> and returns the element
Parser2SelfClose(p, h) ==
    /\ h.status = "selfclose"
    /\ Parser2Return(p, stack[p], Parser2Element(h.name, h.attributes, <<>>), h.cursor)

Parser2ElementSelfClose(p) ==
    /\ CallsParseNode(p)
    /\ ParseNodeArm(tokens[p], cursor[p]) = "element"
    /\ Parser2SelfClose(p, Parser2ElementHead(tokens[p], cursor[p]))

\* parse_element fails before its children
Parser2FailHead(p, h) ==
    /\ h.status = "err"
    /\ Parser2Fail(p, h.err, h.cursor)

Parser2ElementFail(p) ==
    /\ CallsParseNode(p)
    /\ ParseNodeArm(tokens[p], cursor[p]) = "element"
    /\ Parser2FailHead(p, Parser2ElementHead(tokens[p], cursor[p]))

\* the children loop of the innermost call has ended: the current token is
\* a TagClose, or parse_node returned None
ChildrenLoopEnded(p) ==
    /\ pc[p] = "parse2"
    /\ stack[p] # <<>>
    /\ \/ KindAt(tokens[p], cursor[p]) = "TagClose"
       \/ ParseNodeArm(tokens[p], cursor[p]) = "none"

\* parse_element reads </name> and returns the element with its children
Parser2Close(p, frame, t) ==
    /\ t.status = "ok"
    /\ Parser2Return(p, SubSeq(stack[p], 1, Len(stack[p]) - 1),
                     Parser2Element(frame.name, frame.attributes, frame.children),
                     t.cursor)

Parser2ElementClose(p) ==
    /\ ChildrenLoopEnded(p)
    /\ Parser2Close(p, Innermost(p),
                    Parser2ElementTail(tokens[p], cursor[p], Innermost(p).name))

\* the closing tag is not there
Parser2FailTail(p, t) ==
    /\ t.status = "err"
    /\ Parser2Fail(p, t.err, t.cursor)

Parser2CloseFail(p) ==
    /\ ChildrenLoopEnded(p)
    /\ Parser2FailTail(p, Parser2ElementTail(tokens[p], cursor[p], Innermost(p).name))

\* the loop of parse ends, at the end of the tokens or on the None of
\* parse_node: parse returns Ok(nodes)
Parser2ParseReturn(p) ==
    /\ pc[p] = "parse2"
    /\ stack[p] = <<>>
    /\ \/ cursor[p] >= Len(tokens[p])
       \/ ParseNodeArm(tokens[p], cursor[p]) = "none"
    /\ pc' = [pc EXCEPT ![p] = "parsed2"]
    /\ UNCHANGED <<input, position, inside_tag, tokens, cursor, stack, nodes, perr,
                   result, var_names, ELEMENT_ID, serialized, css, buf, blocks, shadows, spc>>

\* the lexer, then the parser of parser2.rs on its tokens
NextParser2 ==
    \/ Start(1)
    \/ LexTagOpen(1)
    \/ LexTagEnd(1)
    \/ LexSlash(1)
    \/ LexEqual(1)
    \/ LexQuote(1)
    \/ LexName(1)
    \/ LexAlphaText(1)
    \/ LexNumber(1)
    \/ LexOtherText(1)
    \/ LexWhitespace(1)
    \/ LexReturn(1)
    \/ Parser2New(1)
    \/ Parser2ParseText(1)
    \/ Parser2ElementOpen(1)
    \/ Parser2ElementSelfClose(1)
    \/ Parser2ElementFail(1)
    \/ Parser2ElementClose(1)
    \/ Parser2CloseFail(1)
    \/ Parser2ParseReturn(1)

SpecParser2 == Init /\ [][NextParser2]_vars

\* Parser::parse of parser2.rs has returned Ok(nodes)
Parser2Ok(p) ==
    /\ pc[p] = "parsed2"
    /\ perr[p] = NoError

\* C22: for <NAME ATTR="V"/>, parse_attributes reads the three tokens
\* AttributeName, EqualSign and AttributeValue of the attribute and stops,
\* without an error, at the TagSelfClose that follows: parse returns the one
\* element with the one attribute ATTR = V, all six tokens consumed
C22_AttributeProtocol ==
    \A n \in Names, a \in AttrNames, v \in AttrValues :
        (/\ input[1] = SelfClosing(n, QuotedAttr(a, v))
         /\ pc[1] = "parsed2") =>
            /\ Parser2Ok(1)
            /\ cursor[1] = 6
            /\ nodes[1] = <<Parser2Element(n, <<Parser2Attribute(a, SomeValue(v))>>, <<>>)>>

\* a step in which parse_node returns a node
ParseNodeReturnsNode ==
    \/ Parser2ParseText(1)
    \/ Parser2ElementSelfClose(1)
    \/ Parser2ElementClose(1)

\* C30: every call of parse_node that returns a node, an Element or a Text,
\* leaves the position further on than it found it
C30_NodeAdvances ==
    [][ParseNodeReturnsNode => cursor'[1] > cursor[1]]_vars


\* ------------------------------------------------------------------------
\* Properties of the errors of a style sheet
\* ------------------------------------------------------------------------

\* C25: a chunk whose selector text has a piece that is not a selector (a
\* pseudo part that is none of the four names, an empty class or an empty
\* pseudo part) gives no StyleBlock
C25_InvalidPieceRejectsChunk ==
    \A t \in InvalidPieceTexts :
        css = Rule(t, <<" ", "c", "o", "l", "o", "r", ":", " ", "r", "e", "d", ";", " ">>) /\ BlocksReturned => blocks = <<>>

\* C26: in .a { color: red; F; } with a fragment F of two or more ':', F
\* goes to the errors of the block and props has the property color alone
C26_ExactlyOneColon ==
    \A f \in TwoColonFragments :
        css = TwoColonDoc(f) /\ BlocksReturned =>
            /\ Len(blocks) = 1
            /\ blocks[1].props = <<StyleProperty(<<"c", "o", "l", "o", "r">>, <<"r", "e", "d">>)>>
            /\ Len(blocks[1].errors) = 1

\* the StyleBlocks written in the well-formed chunks of a list, in order
WrittenBlocks(list) ==
    [i \in 1..Len(SelectSeq(list, LAMBDA c : c.good)) |->
        SelectSeq(list, LAMBDA c : c.good)[i].block]

\* C27: a document of chunks gives the StyleBlocks of its well-formed chunks
\* that are no root block, in source order, whatever chunks without '{' or
\* without selector text and whatever root blocks, well-formed or not, stand
\* before, between and after them
C27_LocalRecovery ==
    BlocksReturned =>
        \A list \in ChunkLists :
            css = ChunkDoc(list) => blocks = WrittenBlocks(list)

\* C27 witness: a chunk without '{' between two well-formed chunks, and a
\* root block with empty braces between them
C27_Witness ==
    /\ BlocksReturned
    /\ \/ css = ChunkDoc(<<ChunkA, ChunkNoBrace, ChunkB>>)
       \/ css = ChunkDoc(<<ChunkA, ChunkRootEmpty, ChunkB>>)
    /\ blocks = <<ChunkA.block, ChunkB.block>>

====
